---- MODULE Spec2Model ----
(***************************************************************************)
(* Model of the world-update service of giskardpy (WorldUpdater, a         *)
(* behaviour of the control tree whose update() is called by the tick      *)
(* thread while update_world_cb runs in one thread per service call) and   *)
(* of the translation of collision requests into a collision matrix        *)
(* (PyBulletSyncer.collision_goals_to_collision_matrix).                   *)
(***************************************************************************)
EXTENDS Integers, Sequences, FiniteSets, TLC

\* ------------------------------------------------------------------ bounds

\* number of concurrent service threads calling update_world_cb
NumClients == 2
\* plugins recorded for one group name in added_plugin_names
MaxPlugins == 2
\* length of the collision request list handed to the collision scene
MaxGoals == 2
\* the number of random joint states calc_collision_matrix tries (num_rnd_tries)
NumRndTries == 2
\* the messages that arrive while one __call__ of PayloadForceTorque runs
MaxCb == 2

Clients == 1..NumClients

\* ------------------------------------------------------------------ state

VARIABLES
    \* WorldUpdater: the three Queue(maxsize=1) objects (number of items) and the timer
    service_in_use, work_permit, update_ticked, timer_state,
    \* the tick thread: its position inside update() and the status update() returned last
    tick_pc, tick_ret, last_status,
    \* the service threads: position inside update_world_cb, the response being returned
    pc, resp,
    \* bookkeeping of the permits: whether the queued permit was put while the call that
    \* now holds service_in_use held it, and what each thread holds ("no" permit, a
    \* "fresh" one put for its own call, or a "stale" one)
    permit_fresh, holds_permit,
    \* whether another call held service_in_use when each thread's call arrived
    arrived_while_in_use,
    \* the world tree, the plugins of the tree, WorldUpdater.added_plugin_names and the
    \* links covered by the self-collision matrix of the collision scene
    world, tree_plugins, added_plugin_names, self_collision_links,
    \* the request processed last: the request, the response code and the world before it
    last,
    \* collision scene: the request list, the stored self-collision matrix of the robot,
    \* the groups of the world it sees, and what collision_goals_to_collision_matrix gave
    collision_goals, collision_matrices, scene_groups, matrix_result,
    \* calc_collision_matrix: its position, its arguments and its local variables
    calc,
    \* the motion being planned: the goals parsed, what InitQPController.update did,
    \* and god_map.qp_controller_config, god_map.qp_controller, god_map.free_variables
    qp,
    \* the goal constructed last: its class, the arguments of its constructor, the
    \* sub-goals and tasks it added and the joint goal handed to JointPositionList
    goal,
    \* SendFollowJointTrajectory and the action server it talks to
    traj,
    \* PayloadForceTorque: its threshold_name, self.wrench, self.state, and the position
    \* and local variables of the __call__ that is running
    ft

protocol_vars == <<service_in_use, work_permit, update_ticked, timer_state,
                   tick_pc, tick_ret, last_status, pc, resp,
                   permit_fresh, holds_permit, arrived_while_in_use>>
world_vars == <<world, tree_plugins, added_plugin_names, self_collision_links>>
collision_vars == <<collision_goals, collision_matrices, scene_groups, matrix_result>>
other_vars == <<calc, qp, goal, traj, ft>>
\* what the steps of calc_collision_matrix leave alone
except_calc == <<qp, goal, traj, ft>>
\* what the steps of a motion leave alone
except_qp == <<calc, goal, traj, ft>>
\* what the constructor of a goal leaves alone
except_goal == <<calc, qp, traj, ft>>
\* what SendFollowJointTrajectory and its action server leave alone
except_traj == <<calc, qp, goal, ft>>
\* what PayloadForceTorque and its subscriber leave alone
except_ft == <<calc, qp, goal, traj>>
vars == <<protocol_vars, world_vars, last, collision_vars, other_vars>>

\* ------------------------------------------------------------------ names

\* WorldUpdater.READY / BUSY / STALL
READY == "READY"
BUSY == "BUSY"
STALL == "STALL"

\* py_trees.Status
SUCCESS == "SUCCESS"
RUNNING == "RUNNING"

\* ------------------------------------------------------------------ the world tree

RobotName == "robot"
RootLink == "map"
RobotLinks == {"base", "hand"}
\* names a request can give to a group; a body added as group g is the single link g
ObjectNames == {"box", "cup"}
Poses == {"p1", "p2"}

\* the world after start-up: the robot alone, attached to the root link
InitialWorld ==
    [groups |-> {RobotName},
     links |-> {RootLink} \cup RobotLinks,
     parent |-> [l \in RobotLinks |-> IF l = "base" THEN RootLink ELSE "base"],
     pose |-> [g \in {} |-> "p1"],
     free_variables |-> {"arm"},
     state |-> [v \in {"arm"} |-> 0]]

\* the state the handlers of update_world_cb read and write, as one record
Bundle(w, tp, apn, scl) ==
    [world |-> w, tree_plugins |-> tp, added_plugin_names |-> apn,
     self_collision_links |-> scl]

InitialBundle == Bundle(InitialWorld, {}, [g \in {} |-> <<>>], {})

\* the links on the path from link l up to the root link, l excluded
RECURSIVE AncestorsOf(_, _)
AncestorsOf(w, l) ==
    IF l = RootLink \/ l \notin DOMAIN w.parent THEN {}
    ELSE {w.parent[l]} \cup AncestorsOf(w, w.parent[l])

\* the links of the sub-tree below link l, l included
SubTree(w, l) == {x \in w.links : x = l \/ l \in AncestorsOf(w, x)}

\* the root link of a group
RootLinkOf(g) == IF g = RobotName THEN "base" ELSE g

\* the links of a group
LinksOfGroup(w, g) == SubTree(w, RootLinkOf(g))

\* python's exceptions: the handlers below give a record with the bundle they leave
\* behind and the exception they raised ("" when they returned)
NoException == ""
Raised(b, e) == [bundle |-> b, exc |-> e]
Returned(b) == [bundle |-> b, exc |-> NoException]

\* WorldTree.search_for_link_name: "" names the root link; a group that is given must
\* exist and the link must be one of its links; without a group the link must exist
SearchForLinkName(w, link_name, group_name) ==
    IF group_name # "" /\ group_name \notin w.groups
    THEN [link |-> "", exc |-> "UnknownGroupException"]
    ELSE IF link_name = "" THEN [link |-> RootLink, exc |-> NoException]
    ELSE IF group_name # "" /\ link_name \notin LinksOfGroup(w, group_name)
    THEN [link |-> "", exc |-> "UnknownLinkException"]
    ELSE IF link_name \notin w.links
    THEN [link |-> "", exc |-> "UnknownLinkException"]
    ELSE [link |-> link_name, exc |-> NoException]

\* WorldTree.add_world_body: a name in use is a DuplicateNameException, a body that
\* cannot be read a CorruptShapeException (ParseError for a urdf); both are found
\* before the tree is touched. Otherwise the link, the group and, for an articulated
\* body, its free variable are added.
AddWorldBody(w, group_name, body, pose, parent_link_name) ==
    IF group_name \in w.groups THEN [world |-> w, exc |-> "DuplicateNameException"]
    ELSE IF body.corrupt
    THEN [world |-> w,
          exc |-> IF body.type = "URDF_BODY" THEN "ParseError"
                  ELSE "CorruptShapeException"]
    ELSE [world |->
            [groups |-> w.groups \cup {group_name},
             links |-> w.links \cup {group_name},
             parent |-> [l \in DOMAIN w.parent \cup {group_name} |->
                           IF l = group_name THEN parent_link_name ELSE w.parent[l]],
             pose |-> [g \in DOMAIN w.pose \cup {group_name} |->
                           IF g = group_name THEN pose ELSE w.pose[g]],
             free_variables |-> IF body.type = "URDF_BODY"
                                THEN w.free_variables \cup {group_name}
                                ELSE w.free_variables,
             state |-> IF body.type = "URDF_BODY"
                       THEN [v \in DOMAIN w.state \cup {group_name} |->
                               IF v = group_name THEN 0 ELSE w.state[v]]
                       ELSE w.state],
          exc |-> NoException]

\* WorldTree.delete_group: the sub-tree of the group leaves the world with the
\* groups inside it
DeleteGroup(w, name) ==
    LET gone == LinksOfGroup(w, name)
    IN  [w EXCEPT !.groups = {g \in w.groups : RootLinkOf(g) \notin gone},
                  !.links = w.links \ gone,
                  !.parent = [l \in DOMAIN w.parent \ gone |-> w.parent[l]],
                  !.pose = [g \in DOMAIN w.pose \ gone |-> w.pose[g]]]

\* WorldTree.cleanup_unused_free_variable: the free variables of joints that are gone
\* leave the registry and the joint state
CleanupUnusedFreeVariable(w) ==
    LET used == {v \in w.free_variables : v = "arm" \/ v \in w.links}
    IN  [w EXCEPT !.free_variables = used,
                  !.state = [v \in DOMAIN w.state \cap used |-> w.state[v]]]

\* WorldTree.delete_all_but_robots: only the robot, its links and its free variables
\* stay; the joint state is left to the caller
DeleteAllButRobots(w) ==
    [w EXCEPT !.groups = {RobotName},
              !.links = {RootLink} \cup RobotLinks,
              !.parent = [l \in RobotLinks |-> w.parent[l]],
              !.pose = [g \in {} |-> "p1"],
              !.free_variables = {"arm"}]

\* WorldTree.move_group: the root link of the group gets a new parent link; a parent
\* inside the group's own sub-tree would close a cycle and is refused
MoveGroup(w, group_name, new_parent) ==
    IF new_parent \in LinksOfGroup(w, group_name)
    THEN [world |-> w, exc |-> "CorruptTreeError"]
    ELSE [world |-> [w EXCEPT !.parent[RootLinkOf(group_name)] = new_parent],
          exc |-> NoException]

\* ------------------------------------------------------------------ requests

ADD == "ADD"
UPDATE_PARENT_LINK == "UPDATE_PARENT_LINK"
UPDATE_POSE == "UPDATE_POSE"
REMOVE == "REMOVE"
REMOVE_ALL == "REMOVE_ALL"
\* an operation code that is none of the five
OTHER_OPERATION == "OTHER_OPERATION"

\* the bodies a request can carry: a box, a mesh that cannot be loaded, a urdf that
\* cannot be parsed, a urdf with a joint state topic, and one naming a tf root link too
Bodies ==
    {[type |-> "PRIMITIVE_BODY", corrupt |-> FALSE, joint_state_topic |-> FALSE,
      tf_root_link_name |-> FALSE],
     [type |-> "MESH_BODY", corrupt |-> TRUE, joint_state_topic |-> FALSE,
      tf_root_link_name |-> FALSE],
     [type |-> "URDF_BODY", corrupt |-> TRUE, joint_state_topic |-> FALSE,
      tf_root_link_name |-> FALSE],
     [type |-> "URDF_BODY", corrupt |-> FALSE, joint_state_topic |-> TRUE,
      tf_root_link_name |-> FALSE],
     [type |-> "URDF_BODY", corrupt |-> FALSE, joint_state_topic |-> TRUE,
      tf_root_link_name |-> TRUE]}

NoBody == [type |-> "PRIMITIVE_BODY", corrupt |-> FALSE, joint_state_topic |-> FALSE,
           tf_root_link_name |-> FALSE]

\* parent_link and parent_link_group of a request: the root link, a link of the robot,
\* the link of the box, a link and a group nobody knows
ParentLinks == {<<"", "">>, <<"hand", RobotName>>, <<"box", "">>, <<"nolink", "">>,
                <<"hand", "nogroup">>}
\* frame ids of a pose: not set, a frame tf knows, a frame nobody knows
FrameIds == {"", "map", "nowhere"}

Request(op, g, pl, plg, f, p, b) ==
    [operation |-> op, group_name |-> g, parent_link |-> pl, parent_link_group |-> plg,
     frame_id |-> f, pose |-> p, body |-> b]

\* UpdateWorldRequest: every request the model sends
Requests ==
    {Request(ADD, g, pl[1], pl[2], "map", "p1", b) :
        g \in ObjectNames, pl \in ParentLinks, b \in Bodies}
    \cup {Request(ADD, g, pl[1], pl[2], f, "p1", NoBody) :
        g \in ObjectNames, pl \in ParentLinks, f \in FrameIds}
    \cup {Request(UPDATE_PARENT_LINK, g, pl[1], pl[2], "map", "p1", NoBody) :
        g \in ObjectNames, pl \in ParentLinks}
    \cup {Request(UPDATE_POSE, g, "", "", "map", p, NoBody) :
        g \in ObjectNames, p \in Poses}
    \cup {Request(op, g, "", "", "map", "p1", NoBody) :
        op \in {REMOVE}, g \in ObjectNames}
    \cup {Request(op, "", "", "", "map", "p1", NoBody) :
        op \in {REMOVE_ALL, OTHER_OPERATION}}

\* ------------------------------------------------------------------ the handlers

\* WorldUpdater._remove_plugins_of_group: added_plugin_names is a defaultdict, so a
\* group without plugins reads as the empty list
RemovePluginsOfGroup(b, group_name) ==
    LET names == IF group_name \in DOMAIN b.added_plugin_names
                 THEN b.added_plugin_names[group_name] ELSE <<>>
    IN  [b EXCEPT !.tree_plugins = @ \ {names[i] : i \in DOMAIN names},
                  !.added_plugin_names =
                      [g \in DOMAIN b.added_plugin_names \ {group_name} |->
                          b.added_plugin_names[g]]]

\* WorldUpdater.add_object
AddObject(b, req) ==
    LET found == SearchForLinkName(b.world, req.parent_link, req.parent_link_group)
        \* transform_pose fails for a frame tf does not know; the frame is then
        \* looked up among the links of the world
        frame == IF req.frame_id = "map" THEN [link |-> "map", exc |-> NoException]
                 ELSE SearchForLinkName(b.world, req.frame_id, "")
        added == AddWorldBody(b.world, req.group_name, req.body, req.pose, found.link)
        b1 == [b EXCEPT !.world = added.world]
        b2 == IF req.body.joint_state_topic
              THEN [b1 EXCEPT !.tree_plugins = @ \cup {req.group_name},
                              !.added_plugin_names =
                                  [g \in DOMAIN @ \cup {req.group_name} |->
                                      IF g \in DOMAIN @
                                      THEN IF g = req.group_name
                                           THEN Append(@[g], req.group_name)
                                           ELSE @[g]
                                      ELSE <<req.group_name>>]]
              ELSE b1
        b3 == [b2 EXCEPT !.self_collision_links =
                            @ \cup LinksOfGroup(b2.world, req.group_name)]
    IN  IF found.exc # NoException THEN Raised(b, found.exc)
        ELSE IF req.frame_id = "" THEN Raised(b, "TransformException")
        ELSE IF frame.exc # NoException THEN Raised(b, frame.exc)
        ELSE IF added.exc # NoException THEN Raised(b, added.exc)
        ELSE IF req.body.tf_root_link_name THEN Raised(b2, "NotImplementedError")
        ELSE Returned(b3)

\* WorldUpdater.update_group_pose
UpdateGroupPose(b, req) ==
    IF req.group_name \notin b.world.groups THEN Raised(b, "UnknownGroupException")
    ELSE Returned([b EXCEPT !.world.pose[req.group_name] = req.pose,
                            !.self_collision_links =
                                @ \ LinksOfGroup(b.world, req.group_name)])

\* WorldUpdater.update_parent_link
UpdateParentLink(b, req) ==
    LET found == SearchForLinkName(b.world, req.parent_link, req.parent_link_group)
        moved == MoveGroup(b.world, req.group_name, found.link)
        new_links == LinksOfGroup(moved.world, req.group_name)
    IN  IF found.exc # NoException THEN Raised(b, found.exc)
        ELSE IF req.group_name \notin b.world.groups
        THEN Raised(b, "UnknownGroupException")
        ELSE IF RootLinkOf(req.group_name) # found.link
        THEN IF moved.exc # NoException THEN Raised(b, moved.exc)
             ELSE Returned([b EXCEPT !.world = moved.world,
                                     !.self_collision_links =
                                         (@ \ new_links) \cup new_links])
        ELSE Returned(b)

\* remove_object without the check of lines 297-298
RemoveObjectUnchecked(b, name) ==
    Returned(RemovePluginsOfGroup(
        [b EXCEPT !.world = CleanupUnusedFreeVariable(DeleteGroup(b.world, name))],
        name))

\* remove_object without the call of _remove_plugins_of_group
RemoveObjectKeepsPlugins(b, name) ==
    IF name \notin b.world.groups THEN Raised(b, "UnknownGroupException")
    ELSE Returned([b EXCEPT !.world =
                      CleanupUnusedFreeVariable(DeleteGroup(b.world, name))])

\* WorldUpdater.remove_object
RemoveObject(b, name) ==
    IF name \notin b.world.groups THEN Raised(b, "UnknownGroupException")
    ELSE Returned(RemovePluginsOfGroup(
             [b EXCEPT !.world = CleanupUnusedFreeVariable(DeleteGroup(b.world, name))],
             name))

\* the plugins of every group of added_plugin_names leave the tree
RECURSIVE RemovePluginsOfGroups(_, _)
RemovePluginsOfGroups(b, names) ==
    IF names = {} THEN b
    ELSE LET g == CHOOSE x \in names : TRUE
         IN  RemovePluginsOfGroups(RemovePluginsOfGroup(b, g), names \ {g})

\* clear_world putting back the whole joint state it copied
ClearWorldWholeState(b) ==
    LET tmp_state == b.world.state
        cleared == DeleteAllButRobots(b.world)
        b1 == RemovePluginsOfGroups([b EXCEPT !.world = cleared],
                                    DOMAIN b.added_plugin_names)
    IN  Returned([b1 EXCEPT !.added_plugin_names = [g \in {} |-> <<>>],
                            !.world.state = tmp_state,
                            !.self_collision_links = {}])

\* WorldUpdater.clear_world
ClearWorld(b) ==
    LET tmp_state == b.world.state
        cleared == DeleteAllButRobots(b.world)
        b1 == RemovePluginsOfGroups([b EXCEPT !.world = cleared],
                                    DOMAIN b.added_plugin_names)
        remaining_free_variables == cleared.free_variables
    IN  Returned([b1 EXCEPT !.added_plugin_names = [g \in {} |-> <<>>],
                            !.world.state =
                                [v \in DOMAIN tmp_state \cap remaining_free_variables
                                    |-> tmp_state[v]],
                            !.self_collision_links = {}])

\* UpdateWorldResponse codes
RES_SUCCESS == "SUCCESS"
RES_BUSY == "BUSY"

\* exception_to_response without the branch for DuplicateNameException
ExceptionToResponseNoDuplicate(e, req) ==
    IF e \in {"CorruptShapeException", "ParseError"}
    THEN IF req.body.type = "MESH_BODY" THEN "CORRUPT_MESH_ERROR"
         ELSE IF req.body.type = "URDF_BODY" THEN "CORRUPT_URDF_ERROR"
         ELSE "CORRUPT_SHAPE_ERROR"
    ELSE IF e = "UnknownGroupException" THEN "UNKNOWN_GROUP_ERROR"
    ELSE IF e = "UnknownLinkException" THEN "UNKNOWN_LINK_ERROR"
    ELSE IF e = "UnsupportedOptionException" THEN "UNSUPPORTED_OPTIONS"
    ELSE IF e = "TransformException" THEN "TF_ERROR"
    ELSE "ERROR"

\* exception_to_response
ExceptionToResponse(e, req) ==
    IF e \in {"CorruptShapeException", "ParseError"}
    THEN IF req.body.type = "MESH_BODY" THEN "CORRUPT_MESH_ERROR"
         ELSE IF req.body.type = "URDF_BODY" THEN "CORRUPT_URDF_ERROR"
         ELSE "CORRUPT_SHAPE_ERROR"
    ELSE IF e = "UnknownGroupException" THEN "UNKNOWN_GROUP_ERROR"
    ELSE IF e = "UnknownLinkException" THEN "UNKNOWN_LINK_ERROR"
    ELSE IF e = "DuplicateNameException" THEN "DUPLICATE_GROUP_ERROR"
    ELSE IF e = "UnsupportedOptionException" THEN "UNSUPPORTED_OPTIONS"
    ELSE IF e = "TransformException" THEN "TF_ERROR"
    ELSE "ERROR"

\* update_world_cb without the else branch for an operation code it does not know
ProcessRequestNoElse(b, req) ==
    LET done == CASE req.operation = ADD -> AddObject(b, req)
                  [] req.operation = UPDATE_PARENT_LINK -> UpdateParentLink(b, req)
                  [] req.operation = UPDATE_POSE -> UpdateGroupPose(b, req)
                  [] req.operation = REMOVE -> RemoveObject(b, req.group_name)
                  [] req.operation = REMOVE_ALL -> ClearWorld(b)
                  [] OTHER -> Returned(b)
    IN  [bundle |-> done.bundle,
         code |-> IF done.exc = NoException THEN RES_SUCCESS
                  ELSE ExceptionToResponse(done.exc, req)]

\* update_world_cb, lines 191-208: the operation run under the work permit and the
\* response it gives
ProcessRequest(b, req) ==
    LET done == CASE req.operation = ADD -> AddObject(b, req)
                  [] req.operation = UPDATE_PARENT_LINK -> UpdateParentLink(b, req)
                  [] req.operation = UPDATE_POSE -> UpdateGroupPose(b, req)
                  [] req.operation = REMOVE -> RemoveObject(b, req.group_name)
                  [] req.operation = REMOVE_ALL -> ClearWorld(b)
                  [] OTHER -> Returned(b)
    IN  [bundle |-> done.bundle,
         code |-> IF req.operation \notin
                       {ADD, UPDATE_PARENT_LINK, UPDATE_POSE, REMOVE, REMOVE_ALL}
                  THEN "INVALID_OPERATION"
                  ELSE IF done.exc = NoException THEN RES_SUCCESS
                  ELSE ExceptionToResponse(done.exc, req)]

\* ------------------------------------------------------------------ collision requests

\* CollisionEntry.ALL and the four types of an entry
ALL == "ALL"
AVOID_COLLISION == "AVOID_COLLISION"
ALLOW_COLLISION == "ALLOW_COLLISION"
AVOID_ALL_COLLISIONS == "AVOID_ALL_COLLISIONS"
ALLOW_ALL_COLLISIONS == "ALLOW_ALL_COLLISIONS"

\* a CollisionEntry (its min_dist is copied around and never read)
Entry(ty, rls, body, lbs) ==
    [type |-> ty, robot_links |-> rls, body_b |-> body, link_bs |-> lbs]

Range(seq) == {seq[i] : i \in DOMAIN seq}

RECURSIVE Reverse(_)
Reverse(seq) == IF seq = <<>> THEN <<>> ELSE Append(Reverse(Tail(seq)), Head(seq))

\* the elements of a set in the order a loop over it meets them
RECURSIVE SetToSeq(_)
SetToSeq(S) ==
    IF S = {} THEN <<>>
    ELSE LET x == CHOOSE y \in S : TRUE IN <<x>> \o SetToSeq(S \ {x})

\* the robot of the collision scene: robot.link_names, robot.link_names_with_collisions
\* and the minimum distance asked for each link (min_dist)
RobotLinkNames == RobotLinks
RobotLinksWithCollisions == <<"base", "hand">>
MinDist == [l \in RobotLinks |-> IF l = "base" THEN 1 ELSE 2]

\* world.groups[body].link_names and link_names_with_collisions of a group
LinkNamesOf(body) == IF body = RobotName THEN RobotLinkNames ELSE {body}
LinksWithCollisionsOf(body) ==
    IF body = RobotName THEN RobotLinksWithCollisions ELSE <<body>>

\* SubWorldTree.link_order: the order of the names
LinkOrder(link1, link2) ==
    LET rank == [l \in RobotLinks |-> IF l = "base" THEN 1 ELSE 2]
    IN  rank[link1] < rank[link2]

\* PyBulletSyncer.all_robot_links, all_link_bs, all_body_bs
AllRobotLinks(ce) == ALL \in Range(ce.robot_links) /\ Len(ce.robot_links) = 1
AllLinkBs(ce) ==
    \/ ALL \in Range(ce.link_bs) /\ Len(ce.link_bs) = 1
    \/ Len(ce.link_bs) = 0
AllBodyBs(ce) == ce.body_b = ALL

\* PyBulletSyncer.is_avoid_collision, is_allow_collision
IsAvoidCollision(ce) == ce.type \in {AVOID_COLLISION, AVOID_ALL_COLLISIONS}
IsAllowCollision(ce) == ce.type \in {ALLOW_COLLISION, ALLOW_ALL_COLLISIONS}

\* PyBulletSyncer.is_avoid_all_self_collision
IsAvoidAllSelfCollision(ce) ==
    /\ IsAvoidCollision(ce)
    /\ AllRobotLinks(ce)
    /\ ce.body_b = RobotName
    /\ AllLinkBs(ce)

\* PyBulletSyncer.is_avoid_all_collision, is_allow_all_collision
IsAvoidAllCollision(ce) ==
    IsAvoidCollision(ce) /\ AllRobotLinks(ce) /\ AllBodyBs(ce) /\ AllLinkBs(ce)
IsAllowAllCollision(ce) ==
    IsAllowCollision(ce) /\ AllRobotLinks(ce) /\ AllBodyBs(ce) /\ AllLinkBs(ce)

\* are_entries_known looking at the body only, not at the links
EntryKnownBodyOnly(groups, ce) == ce.body_b \in Range(groups) \/ AllBodyBs(ce)

\* PyBulletSyncer.are_entries_known for one entry: TRUE when nothing is raised
EntryKnown(groups, ce) ==
    /\ ce.body_b \in Range(groups) \/ AllBodyBs(ce)
    /\ AllRobotLinks(ce) \/ \A rl \in Range(ce.robot_links) : rl \in RobotLinkNames
    /\ IF ce.body_b = RobotName
       THEN \A lb \in Range(ce.link_bs) : lb = ALL \/ lb \in RobotLinkNames
       ELSE IF ~AllBodyBs(ce) /\ ~AllLinkBs(ce)
       THEN \A lb \in Range(ce.link_bs) : lb \in LinkNamesOf(ce.body_b)
       ELSE TRUE

\* PyBulletSyncer.are_entries_known: TRUE when no UnknownBodyException is raised
AreEntriesKnown(groups, goals) == \A i \in DOMAIN goals : EntryKnown(groups, goals[i])

\* verify_collision_entries, lines 244-252: the two deprecated types become the others
NormaliseTypes(goals) ==
    [i \in DOMAIN goals |->
        IF goals[i].type = ALLOW_ALL_COLLISIONS
        THEN [goals[i] EXCEPT !.type = ALLOW_COLLISION]
        ELSE IF goals[i].type = AVOID_ALL_COLLISIONS
        THEN [goals[i] EXCEPT !.type = AVOID_COLLISION]
        ELSE goals[i]]

\* verify_collision_entries, lines 254-260: TRUE when no PhysicsWorldException is raised
AllUsedProperly(goals) ==
    \A i \in DOMAIN goals :
        LET ce == goals[i]
        IN  /\ ~(ALL \in Range(ce.robot_links) /\ Len(ce.robot_links) # 1)
            /\ ~(ALL \in Range(ce.link_bs) /\ Len(ce.link_bs) # 1)
            /\ ~(ce.body_b = ALL /\ ~AllLinkBs(ce))

\* verify_collision_entries, lines 264-268: empty lists mean ALL
FillEmpty(goals) ==
    [i \in DOMAIN goals |->
        [goals[i] EXCEPT
            !.robot_links = IF @ = <<>> THEN <<ALL>> ELSE @,
            !.link_bs = IF @ = <<>> THEN <<ALL>> ELSE @]]

\* lines 270-284 without the else branch of the loop: no avoid-all entry goes in front
CutAtLastAllNoDefault(goals) ==
    LET alls == {i \in DOMAIN goals :
                    IsAvoidAllCollision(goals[i]) \/ IsAllowAllCollision(goals[i])}
    IN  IF alls = {}
        THEN goals
        ELSE LET j == CHOOSE i \in alls : \A k \in alls : k <= i
             IN  IF IsAvoidAllCollision(goals[j])
                 THEN SubSeq(goals, j, Len(goals))
                 ELSE SubSeq(goals, j + 1, Len(goals))

\* verify_collision_entries, lines 270-284: the list from the last avoid-all entry on,
\* or after the last allow-all entry; without either an avoid-all entry goes in front
CutAtLastAll(goals) ==
    LET alls == {i \in DOMAIN goals :
                    IsAvoidAllCollision(goals[i]) \/ IsAllowAllCollision(goals[i])}
    IN  IF alls = {}
        THEN <<Entry(AVOID_COLLISION, <<ALL>>, ALL, <<ALL>>)>> \o goals
        ELSE LET j == CHOOSE i \in alls : \A k \in alls : k <= i
             IN  IF IsAvoidAllCollision(goals[j])
                 THEN SubSeq(goals, j, Len(goals))
                 ELSE SubSeq(goals, j + 1, Len(goals))

\* PyBulletSyncer.split_body_b: an entry for every body is replaced by one per group
RECURSIVE SplitBodyB(_, _)
SplitBodyB(groups, goals) ==
    IF goals = <<>> THEN <<>>
    ELSE LET ce == Head(goals)
             new_ces == [i \in DOMAIN groups |-> [ce EXCEPT !.body_b = groups[i]]]
         IN  (IF AllBodyBs(ce) THEN new_ces ELSE <<ce>>)
             \o SplitBodyB(groups, Tail(goals))

\* PyBulletSyncer.robot_related_stuff: one entry per robot link; the new entries are
\* inserted one after the other at the same index, which reverses their order
RECURSIVE RobotRelatedStuff(_)
RobotRelatedStuff(goals) ==
    IF goals = <<>> THEN <<>>
    ELSE LET ce == Head(goals)
             per_link(links) ==
                 Reverse([i \in DOMAIN links |->
                             [ce EXCEPT !.robot_links = <<links[i]>>]])
         IN  (IF IsAvoidAllSelfCollision(ce) THEN <<ce>>
              ELSE IF AllRobotLinks(ce) THEN per_link(RobotLinksWithCollisions)
              ELSE IF Len(ce.robot_links) > 1 THEN per_link(ce.robot_links)
              ELSE <<ce>>)
             \o RobotRelatedStuff(Tail(goals))

\* PyBulletSyncer.get_possible_collisions
GetPossibleCollisions(matrix, link) ==
    {p[2] : p \in {q \in matrix : q[1] = link}}
    \cup {p[1] : p \in {q \in matrix : q[1] # link /\ q[2] = link}}

\* split_link_bs leaving every entry as it is
SplitLinkBsSkipped(matrix, goals) == goals

\* PyBulletSyncer.split_link_bs: one entry per link of body b
RECURSIVE SplitLinkBs(_, _)
SplitLinkBs(matrix, goals) ==
    IF goals = <<>> THEN <<>>
    ELSE LET ce == Head(goals)
             per_link(links) ==
                 Reverse([i \in DOMAIN links |-> [ce EXCEPT !.link_bs = <<links[i]>>]])
             named_later ==
                 \E i \in DOMAIN goals :
                     /\ goals[i].robot_links = ce.robot_links
                     /\ goals[i].body_b = ce.body_b
                     /\ ~AllLinkBs(goals[i])
         IN  (IF IsAvoidAllSelfCollision(ce) THEN <<ce>>
              ELSE IF AllLinkBs(ce)
              THEN IF ce.body_b = RobotName
                   THEN per_link(SetToSeq(GetPossibleCollisions(matrix,
                                                                ce.robot_links[1])))
                   ELSE IF named_later
                   THEN per_link(LinksWithCollisionsOf(ce.body_b))
                   ELSE <<ce>>
              ELSE IF Len(ce.link_bs) > 1 THEN per_link(ce.link_bs)
              ELSE <<ce>>)
             \o SplitLinkBs(matrix, Tail(goals))

\* PyBulletSyncer.verify_collision_entries: the exception it raises, or the list
VerifyCollisionEntries(groups, matrix, goals) ==
    LET typed == NormaliseTypes(goals)
    IN  IF ~AllUsedProperly(typed)
        THEN [exc |-> "PhysicsWorldException", goals |-> <<>>]
        ELSE IF ~AreEntriesKnown(groups, typed)
        THEN [exc |-> "UnknownBodyException", goals |-> <<>>]
        ELSE [exc |-> NoException,
              goals |-> SplitLinkBs(matrix,
                            RobotRelatedStuff(
                                SplitBodyB(groups, CutAtLastAll(FillEmpty(typed)))))]

\* PyBulletSyncer.get_robot_collision_matrix
GetRobotCollisionMatrix(matrix) ==
    LET key(p) == IF LinkOrder(p[1], p[2]) THEN <<p[1], RobotName, p[2]>>
                  ELSE <<p[2], RobotName, p[1]>>
    IN  [k \in {key(p) : p \in matrix} |->
            MinDist[(CHOOSE p \in matrix : key(p) = k)[1]]]

\* a dict without some of its keys
Without(dict, keys) == [k \in DOMAIN dict \ keys |-> dict[k]]

\* an entry that leaves the dict as it is
ApplyEntryIgnored(min_allowed_distance, ce) == min_allowed_distance

\* collision_goals_to_collision_matrix, lines 213-228: what one entry does to the dict
ApplyEntry(min_allowed_distance, ce) ==
    LET key == <<ce.robot_links[1], ce.body_b, ce.link_bs[1]>>
        r_key == <<ce.link_bs[1], ce.body_b, ce.robot_links[1]>>
    IN  IF IsAllowCollision(ce)
        THEN IF AllLinkBs(ce)
             THEN Without(min_allowed_distance,
                          {key2 \in DOMAIN min_allowed_distance :
                              key[1] = key2[1] /\ key[2] = key2[2]})
             ELSE IF key \in DOMAIN min_allowed_distance
             THEN Without(min_allowed_distance, {key})
             ELSE IF r_key \in DOMAIN min_allowed_distance
             THEN Without(min_allowed_distance, {r_key})
             ELSE min_allowed_distance
        ELSE (key :> MinDist[key[1]]) @@ min_allowed_distance

\* collision_goals_to_collision_matrix, lines 207-229: the loop over the verified list
RECURSIVE ApplyEntries(_, _, _)
ApplyEntries(matrix, min_allowed_distance, goals) ==
    IF goals = <<>> THEN [exc |-> NoException, matrix |-> min_allowed_distance]
    ELSE LET ce == Head(goals)
         IN  IF IsAvoidAllSelfCollision(ce)
             THEN ApplyEntries(matrix,
                               GetRobotCollisionMatrix(matrix) @@ min_allowed_distance,
                               Tail(goals))
             ELSE IF Len(ce.robot_links) # 1 \/ Len(ce.link_bs) # 1
             THEN [exc |-> "AssertionError", matrix |-> <<>>]
             ELSE ApplyEntries(matrix, ApplyEntry(min_allowed_distance, ce), Tail(goals))

\* PyBulletSyncer.collision_goals_to_collision_matrix
CollisionGoalsToCollisionMatrix(groups, matrix, goals) ==
    LET verified == VerifyCollisionEntries(groups, matrix, goals)
    IN  IF verified.exc # NoException THEN [exc |-> verified.exc, matrix |-> <<>>]
        ELSE ApplyEntries(matrix, <<>>, verified.goals)

\* ------------------------------------------------------------------ initial state

\* WorldUpdater.__init__: three empty queues, the timer READY; no call in progress
InitProtocol ==
    /\ service_in_use = 0
    /\ work_permit = 0
    /\ update_ticked = 0
    /\ timer_state = READY
    /\ tick_pc = "idle"
    /\ tick_ret = "none"
    /\ last_status = "none"
    /\ pc = [t \in Clients |-> "idle"]
    /\ resp = [t \in Clients |-> "none"]
    /\ permit_fresh = FALSE
    /\ holds_permit = [t \in Clients |-> "no"]
    /\ arrived_while_in_use = [t \in Clients |-> FALSE]

\* no response is waiting for its client
NoLast == [req |-> Request(OTHER_OPERATION, "", "", "", "map", "p1", NoBody),
           code |-> "none", pre |-> InitialBundle]

InitWorldVars ==
    /\ world = InitialWorld
    /\ tree_plugins = {}
    /\ added_plugin_names = [g \in {} |-> <<>>]
    /\ self_collision_links = {}
    /\ last = NoLast

\* collision_goals_to_collision_matrix has not been called
NoResult == [exc |-> "none", matrix |-> <<>>]

\* the collision scene of the empty world: the robot alone, no self-collision pair
InitCollisionIdle ==
    /\ collision_goals = <<>>
    /\ collision_matrices = {}
    /\ scene_groups = <<RobotName>>
    /\ matrix_result = NoResult

\* calc_collision_matrix is not running
CalcIdle ==
    [pc |-> "idle", link_combinations |-> {}, linked |-> {}, always |-> {}, rest |-> {},
     sometimes |-> {}, i |-> 0, close_at_zero |-> {}, close_in_sample |-> {}]

\* the prediction horizon of the configuration Giskard was started with
ConfiguredHorizon == 9

\* a motion without SetPredictionHorizon; god_map.qp_controller before the first motion
NoHorizon == 0
NoController == [free_variables |-> <<>>, prediction_horizon |-> NoHorizon]

\* the motion goals of one request: their constraints, each of a kind and with the
\* free symbols of its expression, and the horizon of its SetPredictionHorizon goal if
\* it has one
Motion(constraints, new_prediction_horizon) ==
    [constraints |-> constraints, new_prediction_horizon |-> new_prediction_horizon]

\* no motion is running: the configuration as started, no controller built yet
QPIdle ==
    [pc |-> "idle", motion |-> Motion({}, NoHorizon), result |-> "none", built |-> 0,
     prediction_horizon |-> ConfiguredHorizon,
     qp_controller |-> NoController, free_variables |-> <<>>,
     pre_qp_controller |-> NoController, pre_free_variables |-> <<>>,
     pre_state |-> InitialWorld.state]

\* cas.TrueSymbol and cas.FalseSymbol: a condition is the set of the monitors one of
\* which has to be true, so that cas.logic_or is the union
TrueSymbol == {"True"}
FalseSymbol == {}

\* no goal has been constructed; of a motion that runs: the monitors that are true in
\* this tick, the seconds since the start condition of the Sleep monitor fired (-1: it
\* has not), and the parts whose start and end condition have fired and that have had
\* weight
GoalIdle ==
    [pc |-> "idle", class |-> "none", start_condition |-> TrueSymbol,
     hold_condition |-> FalseSymbol, end_condition |-> TrueSymbol,
     from_above |-> FALSE, special_door |-> FALSE, goal_joint_state |-> <<>>,
     pose_keyword |-> "", parts |-> <<>>, goal_state |-> <<>>,
     sleep_start_condition |-> FalseSymbol, true_now |-> {}, sleep_clock |-> -1,
     start_fired |-> {}, end_fired |-> {}, commanded |-> {}]

\* SendFollowJointTrajectory before setup(): no goal at the action server, no result,
\* update() not called yet; updates and sends count the calls of update() and of
\* send_goal() since initialise(), up to two
TrajIdle ==
    [pc |-> "idle", action_client |-> FALSE, sent_goal |-> FALSE,
     action_goal |-> <<>>, server_goal |-> <<>>, state |-> "none", result |-> <<>>,
     status |-> "none", seen |-> "none", feedback_message |-> "",
     updates |-> 0, sends |-> 0]

\* WrenchStamped(): no force, no torque; seq tells the messages of one __call__ apart
NoWrench == [force |-> <<0, 0>>, torque |-> <<0, 0>>, seq |-> 0]

\* no PayloadForceTorque has been constructed
NoMonitor ==
    [pc |-> "none", threshold_name |-> "", wrench |-> NoWrench, state |-> FALSE,
     rotation |-> 0, force_from |-> NoWrench, torque_from |-> NoWrench,
     exc |-> NoException]

\* nothing else of the tree is running
InitOthers ==
    calc = CalcIdle /\ qp = QPIdle /\ goal = GoalIdle /\ traj = TrajIdle /\ ft = NoMonitor

\* the bound on the lists of added_plugin_names
WithinBounds(b) ==
    \A g \in DOMAIN b.added_plugin_names : Len(b.added_plugin_names[g]) <= MaxPlugins

CurrentBundle == Bundle(world, tree_plugins, added_plugin_names, self_collision_links)

SetBundle(b) ==
    /\ world' = b.world
    /\ tree_plugins' = b.tree_plugins
    /\ added_plugin_names' = b.added_plugin_names
    /\ self_collision_links' = b.self_collision_links

\* ------------------------------------------------------------------ update()

unchanged_clients == <<pc, resp, holds_permit, arrived_while_in_use>>
unchanged_rest == <<world_vars, last, collision_vars, other_vars>>

\* the tree ticks the behaviour: update() is entered;
\* line 163: if self.timer_state == self.STALL
TickCheckStall ==
    /\ tick_pc = "idle"
    /\ IF timer_state = STALL
       THEN tick_pc' = "set_ready" /\ tick_ret' = SUCCESS
       ELSE tick_pc' = "chk_in_use" /\ tick_ret' = tick_ret
    /\ UNCHANGED <<service_in_use, work_permit, update_ticked, timer_state,
                   last_status, permit_fresh, unchanged_clients, unchanged_rest>>

\* lines 164-165: self.timer_state = self.READY; return Status.SUCCESS
TickSetReady ==
    /\ tick_pc = "set_ready"
    /\ timer_state' = READY
    /\ tick_pc' = "finally"
    /\ UNCHANGED <<service_in_use, work_permit, update_ticked, tick_ret,
                   last_status, permit_fresh, unchanged_clients, unchanged_rest>>

\* lines 166-168: if self.service_in_use.empty(): return Status.SUCCESS
TickCheckInUse ==
    /\ tick_pc = "chk_in_use"
    /\ IF service_in_use = 0
       THEN tick_pc' = "finally" /\ tick_ret' = SUCCESS
       ELSE tick_pc' = "chk_ready" /\ tick_ret' = tick_ret
    /\ UNCHANGED <<service_in_use, work_permit, update_ticked, timer_state,
                   last_status, permit_fresh, unchanged_clients, unchanged_rest>>

\* line 169: if self.timer_state == self.READY, else line 172: return Status.RUNNING
TickCheckReady ==
    /\ tick_pc = "chk_ready"
    /\ IF timer_state = READY
       THEN tick_pc' = "set_busy" /\ tick_ret' = tick_ret
       ELSE tick_pc' = "finally" /\ tick_ret' = RUNNING
    /\ UNCHANGED <<service_in_use, work_permit, update_ticked, timer_state,
                   last_status, permit_fresh, unchanged_clients, unchanged_rest>>

\* line 170: self.timer_state = self.BUSY
TickSetBusy ==
    /\ tick_pc = "set_busy"
    /\ timer_state' = BUSY
    /\ tick_pc' = "put_permit"
    /\ UNCHANGED <<service_in_use, work_permit, update_ticked, tick_ret,
                   last_status, permit_fresh, unchanged_clients, unchanged_rest>>

\* lines 171-172: self.work_permit.put(1), which blocks while the queue is full;
\* return Status.RUNNING
TickPutPermit ==
    /\ tick_pc = "put_permit"
    /\ work_permit = 0
    /\ work_permit' = 1
    /\ permit_fresh' = (service_in_use > 0)
    /\ tick_ret' = RUNNING
    /\ tick_pc' = "finally"
    /\ UNCHANGED <<service_in_use, update_ticked, timer_state,
                   last_status, unchanged_clients, unchanged_rest>>

\* lines 173-175: finally: if self.update_ticked.empty(): self.update_ticked.put(1);
\* update() returns
TickFinally ==
    /\ tick_pc = "finally"
    /\ update_ticked' = 1
    /\ last_status' = tick_ret
    /\ tick_ret' = "none"
    /\ tick_pc' = "idle"
    /\ UNCHANGED <<service_in_use, work_permit, timer_state, permit_fresh,
                   unchanged_clients, unchanged_rest>>

Tick ==
    \/ TickCheckStall
    \/ TickSetReady
    \/ TickCheckInUse
    \/ TickCheckReady
    \/ TickSetBusy
    \/ TickPutPermit
    \/ TickFinally

\* ------------------------------------------------------------------ update_world_cb

unchanged_tick == <<tick_pc, tick_ret, last_status>>

\* a client calls the service: a thread enters update_world_cb
Call(t) ==
    /\ pc[t] = "idle"
    /\ arrived_while_in_use' = [arrived_while_in_use EXCEPT ![t] = (service_in_use > 0)]
    /\ pc' = [pc EXCEPT ![t] = "put_in_use"]
    /\ UNCHANGED <<service_in_use, work_permit, update_ticked, timer_state, resp,
                   permit_fresh, holds_permit, unchanged_tick, unchanged_rest>>

\* a put that never blocks, as on a queue without maxsize
PutInUseUnbounded(t) ==
    /\ pc[t] = "put_in_use"
    /\ service_in_use' = service_in_use + 1
    /\ pc' = [pc EXCEPT ![t] = "ticked1"]
    /\ UNCHANGED <<work_permit, update_ticked, timer_state, resp, permit_fresh,
                   holds_permit, arrived_while_in_use, unchanged_tick, unchanged_rest>>

\* line 184: self.service_in_use.put('muh'), which blocks while the queue is full
PutInUse(t) ==
    /\ pc[t] = "put_in_use"
    /\ service_in_use = 0
    /\ service_in_use' = service_in_use + 1
    /\ pc' = [pc EXCEPT ![t] = "ticked1"]
    /\ UNCHANGED <<work_permit, update_ticked, timer_state, resp, permit_fresh,
                   holds_permit, arrived_while_in_use, unchanged_tick, unchanged_rest>>

\* lines 187 and 189: self.update_ticked.get(), twice, each blocking while empty
GetTicked(t) ==
    /\ pc[t] \in {"ticked1", "ticked2"}
    /\ update_ticked = 1
    /\ update_ticked' = 0
    /\ pc' = [pc EXCEPT ![t] = IF pc[t] = "ticked1" THEN "ticked2" ELSE "get_permit"]
    /\ UNCHANGED <<service_in_use, work_permit, timer_state, resp, permit_fresh,
                   holds_permit, arrived_while_in_use, unchanged_tick, unchanged_rest>>

\* line 190: self.work_permit.get(timeout=req.timeout) gets the permit
GetPermit(t) ==
    /\ pc[t] = "get_permit"
    /\ work_permit = 1
    /\ work_permit' = 0
    /\ holds_permit' = [holds_permit EXCEPT ![t] = IF permit_fresh THEN "fresh"
                                                   ELSE "stale"]
    /\ permit_fresh' = FALSE
    /\ pc' = [pc EXCEPT ![t] = "mutate"]
    /\ UNCHANGED <<service_in_use, update_ticked, timer_state, resp,
                   arrived_while_in_use, unchanged_tick, unchanged_rest>>

\* line 190 and lines 209-213: the queue stays empty for req.timeout seconds, get raises
\* Empty and the response is BUSY
PermitTimeout(t) ==
    /\ pc[t] = "get_permit"
    /\ work_permit = 0
    /\ resp' = [resp EXCEPT ![t] = RES_BUSY]
    /\ pc' = [pc EXCEPT ![t] = "fin_stall"]
    /\ UNCHANGED <<service_in_use, work_permit, update_ticked, timer_state,
                   permit_fresh, holds_permit, arrived_while_in_use, unchanged_tick,
                   unchanged_rest>>

\* lines 191-208: the operation of request r runs under the permit
Mutate(t, r) ==
    /\ pc[t] = "mutate"
    /\ LET done == ProcessRequest(CurrentBundle, r)
       IN  /\ WithinBounds(done.bundle)
           /\ SetBundle(done.bundle)
           /\ resp' = [resp EXCEPT ![t] = done.code]
    /\ pc' = [pc EXCEPT ![t] = "fin_stall"]
    /\ UNCHANGED <<service_in_use, work_permit, update_ticked, timer_state,
                   permit_fresh, holds_permit, arrived_while_in_use, unchanged_tick,
                   last, collision_vars, other_vars>>

\* line 215: finally: self.timer_state = self.STALL
FinallyStall(t) ==
    /\ pc[t] = "fin_stall"
    /\ timer_state' = STALL
    /\ pc' = [pc EXCEPT ![t] = "fin_release"]
    /\ UNCHANGED <<service_in_use, work_permit, update_ticked, resp, permit_fresh,
                   holds_permit, arrived_while_in_use, unchanged_tick, unchanged_rest>>

\* line 216: self.service_in_use.get_nowait(); a permit still queued now was put for
\* a call that is over
FinallyRelease(t) ==
    /\ pc[t] = "fin_release"
    /\ service_in_use > 0
    /\ service_in_use' = service_in_use - 1
    /\ permit_fresh' = FALSE
    /\ pc' = [pc EXCEPT ![t] = "fin_markers"]
    /\ UNCHANGED <<work_permit, update_ticked, timer_state, resp, holds_permit,
                   arrived_while_in_use, unchanged_tick, unchanged_rest>>

\* line 217 and the return: self.clear_markers(), then the response goes to the client
ClearMarkersAndReturn(t) ==
    /\ pc[t] = "fin_markers"
    /\ pc' = [pc EXCEPT ![t] = "idle"]
    /\ holds_permit' = [holds_permit EXCEPT ![t] = "no"]
    /\ resp' = [resp EXCEPT ![t] = "none"]
    /\ arrived_while_in_use' = [arrived_while_in_use EXCEPT ![t] = FALSE]
    /\ UNCHANGED <<service_in_use, work_permit, update_ticked, timer_state,
                   permit_fresh, unchanged_tick, unchanged_rest>>

\* the requests the service threads send while the interleavings are explored
ProtocolRequests ==
    {Request(ADD, "box", "", "", "map", "p1", NoBody),
     Request(REMOVE, "box", "", "", "map", "p1", NoBody)}

Serve(t) ==
    \/ Call(t)
    \/ PutInUse(t)
    \/ GetTicked(t)
    \/ GetPermit(t)
    \/ PermitTimeout(t)
    \/ \E r \in ProtocolRequests : Mutate(t, r)
    \/ FinallyStall(t)
    \/ FinallyRelease(t)
    \/ ClearMarkersAndReturn(t)

Init == InitProtocol /\ InitWorldVars /\ InitCollisionIdle /\ InitOthers

Next == Tick \/ \E t \in Clients : Serve(t)

\* the service threads and the tick thread, interleaved step by step
Spec == Init /\ [][Next]_vars

\* ------------------------------------------------------------------ one call at a time

\* update_world_cb from line 184 to its return, for one client at a time with the
\* tree ticking in between: the permit comes in time (granted) and the operation of
\* request r runs, or the wait for it times out and the response is BUSY
UpdateWorldCb(r, granted) ==
    /\ \A t \in Clients : pc[t] = "idle"
    /\ last.code = "none"
    /\ IF granted
       THEN LET done == ProcessRequest(CurrentBundle, r)
            IN  /\ WithinBounds(done.bundle)
                /\ SetBundle(done.bundle)
                /\ last' = [req |-> r, code |-> done.code, pre |-> CurrentBundle]
       ELSE /\ last' = [req |-> r, code |-> RES_BUSY, pre |-> CurrentBundle]
            /\ UNCHANGED world_vars
    /\ timer_state' = STALL
    /\ update_ticked' = 0
    /\ UNCHANGED <<service_in_use, work_permit, permit_fresh, unchanged_tick,
                   unchanged_clients, collision_vars, other_vars>>

\* the client has the response; the next call can come
ResponseReceived ==
    /\ last.code # "none"
    /\ last' = NoLast
    /\ UNCHANGED <<protocol_vars, world_vars, collision_vars, other_vars>>

\* between two calls the joint state topics move the free variables of the world: those
\* of the robot, and those of a group whose SyncConfiguration plugin is in the tree
SyncConfiguration(v, position) ==
    /\ last.code = "none"
    /\ v \in world.free_variables
    /\ v = "arm" \/ v \in tree_plugins
    /\ world' = [world EXCEPT !.state[v] = position]
    /\ UNCHANGED <<protocol_vars, tree_plugins, added_plugin_names,
                   self_collision_links, last, collision_vars, other_vars>>

NextWorld ==
    \/ \E r \in Requests, granted \in BOOLEAN : UpdateWorldCb(r, granted)
    \/ ResponseReceived
    \/ \E v \in {"arm"} \cup ObjectNames, position \in {0, 1} :
          SyncConfiguration(v, position)

\* the service called by one client at a time, with every request of Requests
SpecWorld == Init /\ [][NextWorld]_vars

\* ------------------------------------------------------------------ collision matrix

\* the entries a request is made of: every type for every robot link against the
\* robot, the box and every body; entries naming what the world does not have;
\* entries using ALL next to other names; entries with several or no names
EntryPool ==
    {Entry(ty, rls, bl[1], bl[2]) :
        ty \in {AVOID_COLLISION, ALLOW_COLLISION},
        rls \in {<<ALL>>, <<"base">>, <<"hand">>},
        bl \in {<<RobotName, <<ALL>>>>, <<RobotName, <<"base">>>>,
                <<RobotName, <<"hand">>>>, <<"box", <<ALL>>>>,
                <<"box", <<"box">>>>, <<ALL, <<ALL>>>>}}
    \cup {Entry(AVOID_COLLISION, <<"zz">>, RobotName, <<ALL>>),
          Entry(ALLOW_COLLISION, <<"base">>, "zz", <<ALL>>),
          Entry(AVOID_COLLISION, <<"base">>, "box", <<"zz">>),
          Entry(AVOID_COLLISION, <<"base">>, RobotName, <<"zz">>),
          Entry(AVOID_COLLISION, <<ALL, "base">>, "box", <<ALL>>),
          Entry(ALLOW_COLLISION, <<"base">>, ALL, <<"box">>),
          Entry(AVOID_COLLISION, <<"base">>, "box", <<ALL, "box">>),
          Entry(ALLOW_COLLISION, <<"base", "hand">>, "box", <<>>),
          Entry(AVOID_COLLISION, <<>>, RobotName, <<"base", "hand">>),
          Entry(AVOID_ALL_COLLISIONS, <<>>, ALL, <<>>),
          Entry(ALLOW_ALL_COLLISIONS, <<ALL>>, ALL, <<ALL>>)}

\* the lists of collision entries of a request
GoalLists == UNION {[1..n -> EntryPool] : n \in 0..MaxGoals}

\* the scene the matrix is computed for: the robot and a box, and the one pair of
\* robot links of the self-collision matrix, stored in either orientation
InitCollision ==
    /\ InitProtocol
    /\ InitWorldVars
    /\ InitOthers
    /\ collision_goals = <<>>
    /\ collision_matrices \in {{<<"base", "hand">>}, {<<"hand", "base">>}}
    /\ scene_groups = <<RobotName, "box">>
    /\ matrix_result = NoResult

\* collision_goals_to_collision_matrix(goals, min_dist)
CollisionGoalsToMatrix(goals) ==
    /\ matrix_result = NoResult
    /\ collision_goals' = goals
    /\ matrix_result' = CollisionGoalsToCollisionMatrix(scene_groups,
                                                        collision_matrices, goals)
    /\ UNCHANGED <<protocol_vars, world_vars, last, collision_matrices, scene_groups,
                   other_vars>>

\* the caller has the matrix, or the exception; the next list can come
MatrixReceived ==
    /\ matrix_result # NoResult
    /\ collision_goals' = <<>>
    /\ matrix_result' = NoResult
    /\ UNCHANGED <<protocol_vars, world_vars, last, collision_matrices, scene_groups,
                   other_vars>>

\* one call at a time: the next list comes when the caller has the last result
NextCollision ==
    \/ /\ matrix_result = NoResult
       /\ \E goals \in GoalLists : CollisionGoalsToMatrix(goals)
    \/ MatrixReceived

\* collision_goals_to_collision_matrix called with every list of GoalLists
SpecCollision == InitCollision /\ [][NextCollision]_vars

\* ------------------------------------------------------------------ self-collision matrix

\* the thresholds of calc_collision_matrix, in steps of 0.05: d for the links that are
\* always in collision, d2 for the links that are sometimes in collision
d == 1
d2 == 0

\* the pairs of links calc_collision_matrix is asked about: base and hand in both
\* orders, and base with itself
CandidatePairs == {<<"base", "hand">>, <<"hand", "base">>, <<"base", "base">>}

\* the distances the collision oracle can report for the pairs in one joint state
Distances == [CandidatePairs -> 0..(d + 1)]

\* SubWorldTree.are_linked: no link is joined to another, or base and hand are
LinkedChoices == {{}, {<<"base", "hand">>, <<"hand", "base">>}}

\* in_collision on a threshold that is always d
CheckCollisionsAtD(link_combinations, dist, distance) ==
    {p \in link_combinations : dist[p] <= d}

\* PyBulletSyncer.check_collisions, with in_collision: the pairs for which the oracle
\* has a closest point within the distance
CheckCollisions(link_combinations, dist, distance) ==
    {p \in link_combinations : dist[p] <= distance}

\* lines 75-91: the pairs that are linked or are one link twice are always in collision
CalcStart(link_combinations, linked) ==
    /\ calc.pc = "idle"
    /\ LET always == {p \in link_combinations : p \in linked \/ p[1] = p[2]}
       IN  calc' = [CalcIdle EXCEPT !.pc = "zero",
                                    !.link_combinations = link_combinations,
                                    !.linked = linked,
                                    !.always = always,
                                    !.rest = link_combinations \ always]
    /\ UNCHANGED <<protocol_vars, world_vars, last, collision_vars, except_calc>>

\* lines 92-94: at the zero joint state, the pairs within d are always in collision
CalcZero(dist) ==
    /\ calc.pc = "zero"
    /\ LET always == calc.always \cup CheckCollisions(calc.rest, dist, d)
       IN  calc' = [calc EXCEPT !.pc = "min",
                                !.always = always,
                                !.rest = calc.rest \ always,
                                !.close_at_zero = {p \in CandidatePairs : dist[p] <= d}]
    /\ UNCHANGED <<protocol_vars, world_vars, last, collision_vars, except_calc>>

\* what one more joint state adds to sometimes and takes from rest
Sampled(dist, next_pc, next_i) ==
    LET sometimes2 == CheckCollisions(calc.rest, dist, d2)
    IN  [calc EXCEPT !.pc = next_pc,
                     !.i = next_i,
                     !.rest = calc.rest \ sometimes2,
                     !.sometimes = calc.sometimes \cup sometimes2,
                     !.close_in_sample = @ \cup {p \in CandidatePairs : dist[p] <= d2}]

\* lines 97-99: the minimum joint state
CalcMin(dist) ==
    /\ calc.pc = "min"
    /\ calc' = Sampled(dist, "max", 0)
    /\ UNCHANGED <<protocol_vars, world_vars, last, collision_vars, except_calc>>

\* lines 100-103: the maximum joint state
CalcMax(dist) ==
    /\ calc.pc = "max"
    /\ calc' = Sampled(dist, "rnd", 0)
    /\ UNCHANGED <<protocol_vars, world_vars, last, collision_vars, except_calc>>

\* lines 104-109: one of the num_rnd_tries random joint states
CalcRnd(dist) ==
    /\ calc.pc = "rnd"
    /\ calc.i < NumRndTries
    /\ calc' = Sampled(dist, "rnd", calc.i + 1)
    /\ UNCHANGED <<protocol_vars, world_vars, last, collision_vars, except_calc>>

\* lines 113-114: self.collision_matrices[group_name] = sometimes
CalcStore ==
    /\ calc.pc = "rnd"
    /\ calc.i = NumRndTries
    /\ collision_matrices' = calc.sometimes
    /\ calc' = [calc EXCEPT !.pc = "done"]
    /\ UNCHANGED <<protocol_vars, world_vars, last, collision_goals, scene_groups,
                   matrix_result, except_calc>>

\* the caller has the matrix; calc_collision_matrix can be called again
CalcReturned ==
    /\ calc.pc = "done"
    /\ calc' = CalcIdle
    /\ UNCHANGED <<protocol_vars, world_vars, last, collision_vars, except_calc>>

NextMatrix ==
    \/ /\ calc.pc = "idle"
       /\ \E link_combinations \in SUBSET CandidatePairs, linked \in LinkedChoices :
              CalcStart(link_combinations, linked)
    \/ \E dist \in Distances :
          CalcZero(dist) \/ CalcMin(dist) \/ CalcMax(dist) \/ CalcRnd(dist)
    \/ CalcStore
    \/ CalcReturned

\* calc_collision_matrix called again and again, with every answer of the oracle
SpecMatrix == Init /\ [][NextMatrix]_vars

\* ------------------------------------------------------------------ motions

\* the horizons a SetPredictionHorizon goal asks for
NewHorizons == {1, 7}

\* the symbols of constraint expressions: the positions of the free variables of the
\* robot and of an object, and a symbol that is no free variable
Symbols == {"arm", "box", "t"}

\* the constraints goals add: equality, inequality, derivative and manipulability
\* constraints over one of the symbols
ConstraintPool ==
    [kind : {"eq", "neq", "derivative", "manip"}, symbols : {{x} : x \in Symbols}]

\* the requests: goals with up to two constraints, with or without a
\* SetPredictionHorizon goal
Motions ==
    {Motion(cs, h) : cs \in {{}} \cup {{a, b} : a, b \in ConstraintPool},
                     h \in {NoHorizon} \cup NewHorizons}

\* motion_goal_manager.get_constraints_from_goals: the constraints by kind
GetConstraintsFromGoals(m) ==
    [k \in {"eq", "neq", "derivative", "manip"} |->
        {c \in m.constraints : c.kind = k}]

\* python's order of the position names
NameRank == [v \in Symbols |-> CASE v = "arm" -> 1 [] v = "box" -> 2 [] v = "t" -> 3]

\* the list without the sort: the names in an order that is not that of the names
RECURSIVE Unsorted(_)
Unsorted(names) ==
    IF names = {} THEN <<>>
    ELSE LET x == CHOOSE y \in names : \A z \in names : NameRank[z] <= NameRank[y]
         IN  <<x>> \o Unsorted(names \ {x})

\* sorted(..., key=lambda x: x.position_name)
RECURSIVE SortedByName(_)
SortedByName(names) ==
    IF names = {} THEN <<>>
    ELSE LET x == CHOOSE y \in names : \A z \in names : NameRank[y] <= NameRank[z]
         IN  <<x>> \o SortedByName(names \ {x})

\* get_active_free_symbols writing god_map.free_variables before it looks at the length
GetActiveFreeSymbolsWriteFirst(eq, neq, derivative, free_variables, gm_free_variables) ==
    LET symbols == UNION {c.symbols : c \in eq \cup neq \cup derivative}
        active == SortedByName({v \in free_variables : v \in symbols})
    IN  [exc |-> IF Len(active) = 0 THEN "EmptyProblemException" ELSE NoException,
         free_variables |-> active,
         god_map_free_variables |-> active]

\* InitQPController.get_active_free_symbols: the exception raised, the list returned
\* and god_map.free_variables afterwards
GetActiveFreeSymbols(eq, neq, derivative, free_variables, gm_free_variables) ==
    LET symbols == UNION {c.symbols : c \in eq \cup neq \cup derivative}
        active == SortedByName({v \in free_variables : v \in symbols})
    IN  IF Len(active) = 0
        THEN [exc |-> "EmptyProblemException", free_variables |-> <<>>,
              god_map_free_variables |-> gm_free_variables]
        ELSE [exc |-> NoException, free_variables |-> active,
              god_map_free_variables |-> active]

\* QPProblemBuilder(free_variables=..., prediction_horizon=...)
QPProblemBuilder(free_variables, prediction_horizon) ==
    [free_variables |-> free_variables, prediction_horizon |-> prediction_horizon]

\* the goals of a request are constructed; SetPredictionHorizon.__init__ writes its
\* horizon into god_map.qp_controller_config
ParseGoals(m) ==
    /\ qp.pc = "idle"
    /\ qp' = [qp EXCEPT
                !.pc = "goals",
                !.motion = m,
                !.prediction_horizon = IF m.new_prediction_horizon # NoHorizon
                                       THEN m.new_prediction_horizon ELSE @,
                !.pre_qp_controller = qp.qp_controller,
                !.pre_free_variables = qp.free_variables,
                !.pre_state = world.state]
    /\ UNCHANGED <<protocol_vars, world_vars, last, collision_vars, except_qp>>

\* InitQPController.update
InitQPControllerUpdate ==
    /\ qp.pc = "goals"
    /\ LET cs == GetConstraintsFromGoals(qp.motion)
           got == GetActiveFreeSymbols(cs["eq"], cs["neq"], cs["derivative"],
                                       world.free_variables, qp.free_variables)
       IN  IF got.exc # NoException
           THEN qp' = [qp EXCEPT !.pc = "done",
                                 !.result = "EMPTY_PROBLEM",
                                 !.free_variables = got.god_map_free_variables]
           ELSE qp' = [qp EXCEPT !.pc = "loop",
                                 !.built = 1,
                                 !.free_variables = got.god_map_free_variables,
                                 !.qp_controller =
                                     QPProblemBuilder(got.free_variables,
                                                      qp.prediction_horizon)]
    /\ UNCHANGED <<protocol_vars, world_vars, last, collision_vars, except_qp>>

\* the control loop solves and moves the free variables of the controller until the
\* goals are reached
ControlLoop(position) ==
    /\ qp.pc = "loop"
    /\ world' = [world EXCEPT !.state =
                    [v \in DOMAIN world.state |->
                        IF v \in Range(qp.qp_controller.free_variables)
                        THEN position ELSE world.state[v]]]
    /\ qp' = [qp EXCEPT !.pc = "done", !.result = "SUCCESS"]
    /\ UNCHANGED <<protocol_vars, tree_plugins, added_plugin_names,
                   self_collision_links, last, collision_vars, except_qp>>

\* the result goes to the client; the next request can come
MotionDone ==
    /\ qp.pc = "done"
    /\ qp' = [qp EXCEPT !.pc = "idle",
                        !.motion = QPIdle.motion,
                        !.result = "none",
                        !.built = 0,
                        !.pre_qp_controller = NoController,
                        !.pre_free_variables = <<>>,
                        !.pre_state = InitialWorld.state]
    /\ UNCHANGED <<protocol_vars, world_vars, last, collision_vars, except_qp>>

\* the object with a joint that comes and goes between two motions
QPRequests ==
    {Request(ADD, "box", "", "", "map", "p1",
             [type |-> "URDF_BODY", corrupt |-> FALSE, joint_state_topic |-> TRUE,
              tf_root_link_name |-> FALSE]),
     Request(REMOVE, "box", "", "", "map", "p1", NoBody)}

NextQP ==
    \/ /\ qp.pc = "idle"
       /\ \E r \in QPRequests : UpdateWorldCb(r, TRUE)
    \/ ResponseReceived
    \/ /\ qp.pc = "idle"
       /\ \E m \in Motions : ParseGoals(m)
    \/ InitQPControllerUpdate
    \/ \E position \in {0, 1} : ControlLoop(position)
    \/ MotionDone

\* one motion after the other
SpecQP == Init /\ [][NextQP]_vars

\* ------------------------------------------------------------------ goals

\* the conditions a goal is constructed with: a default or the state of a monitor
Conditions ==
    [start_condition : {TrueSymbol, {"start"}},
     hold_condition : {FalseSymbol, {"hold"}},
     end_condition : {TrueSymbol, FalseSymbol, {"end"}}]

\* the limits of the joint of the container: (min_position, max_position)
JointPositionLimits == <<0, 2>>
\* goal_joint_state: omitted, or a position below, within or above the limits
GoalJointStates == {<<>>} \cup {<<x>> : x \in -1..3}

\* a task, or a sub-goal added through add_constraints_of_goal, with the conditions
\* its constraints run under
Part(name, start_condition, hold_condition, end_condition) ==
    [name |-> name, start_condition |-> start_condition,
     hold_condition |-> hold_condition, end_condition |-> end_condition]

\* a goal constructed without condition arguments runs under the defaults
DefaultPart(name) == Part(name, TrueSymbol, FalseSymbol, TrueSymbol)

\* KeepRotationGoal.__init__
KeepRotationGoal(start_condition, hold_condition, end_condition) ==
    <<Part("KeepRotationGoal", start_condition, hold_condition, end_condition),
      Part("CartesianOrientation", start_condition, hold_condition, end_condition)>>

\* GraspObject.__init__: the sub-goals it adds
GraspObject(start_condition, hold_condition, end_condition) ==
    <<Part("CartesianPosition", start_condition, hold_condition, end_condition),
      Part("AlignPlanes", start_condition, hold_condition, end_condition),
      Part("AlignPlanes", start_condition, hold_condition, end_condition)>>
    \o KeepRotationGoal(start_condition, hold_condition, end_condition)

\* AlignHeight.__init__: the sub-goals it adds
AlignHeight(from_above, start_condition, hold_condition, end_condition) ==
    (IF from_above
     THEN <<DefaultPart("AlignPlanes"), DefaultPart("AlignPlanes")>>
     ELSE KeepRotationGoal(start_condition, hold_condition, end_condition))
    \o KeepRotationGoal(start_condition, hold_condition, end_condition)
    \o <<Part("CartesianPosition", start_condition, hold_condition, end_condition)>>

\* Open.__init__ with the door joint monitor joined to the end condition only after
\* the tasks and the joint goal of the container were given theirs
OpenJoinsLate(special_door, goal_joint_state, start_condition, hold_condition, end_condition) ==
    LET max_position == JointPositionLimits[2]
        goal_state == IF goal_joint_state = <<>>
                      THEN max_position
                      ELSE IF max_position <= goal_joint_state[1]
                           THEN max_position ELSE goal_joint_state[1]
        end == IF special_door
               THEN end_condition \cup {"door_joint_monitor"}
               ELSE end_condition
    IN  [goal_state |-> <<goal_state>>,
         sleep_start_condition |-> IF goal_state > 1 /\ special_door
                                   THEN end ELSE FalseSymbol,
         parts |->
            <<Part("position", start_condition, hold_condition, end_condition),
              Part("orientation", start_condition, hold_condition, end_condition),
              Part("JointPositionList", start_condition, hold_condition, end_condition)>>
            \o (IF goal_state > 1 /\ special_door
                THEN <<Part("JointPositionList", end, hold_condition, {"sleep"})>>
                ELSE <<>>)]

\* Open.__init__: the tasks and sub-goals it adds, the joint goal of the container, and
\* the start condition of the Sleep monitor
Open(special_door, goal_joint_state, start_condition, hold_condition, end_condition) ==
    LET max_position == JointPositionLimits[2]
        goal_state == IF goal_joint_state = <<>>
                      THEN max_position
                      ELSE IF max_position <= goal_joint_state[1]
                           THEN max_position ELSE goal_joint_state[1]
        end == IF special_door
               THEN end_condition \cup {"door_joint_monitor"}
               ELSE end_condition
    IN  [goal_state |-> <<goal_state>>,
         sleep_start_condition |-> IF goal_state > 1 /\ special_door
                                   THEN end ELSE FalseSymbol,
         parts |->
            <<Part("position", start_condition, hold_condition, end),
              Part("orientation", start_condition, hold_condition, end),
              Part("JointPositionList", start_condition, hold_condition, end)>>
            \o (IF goal_state > 1 /\ special_door
                THEN <<Part("JointPositionList", end, hold_condition, {"sleep"})>>
                ELSE <<>>)]

\* Close.__init__: the Open goal it adds
Close(goal_joint_state, start_condition, hold_condition, end_condition) ==
    LET min_position == JointPositionLimits[1]
        goal_state == IF goal_joint_state = <<>>
                      THEN min_position
                      ELSE IF min_position >= goal_joint_state[1]
                           THEN min_position ELSE goal_joint_state[1]
        open == Open(FALSE, <<goal_state>>, start_condition, hold_condition,
                     end_condition)
    IN  [goal_state |-> open.goal_state,
         parts |-> <<Part("Open", start_condition, hold_condition, end_condition)>>
                   \o open.parts]

\* the poses of TakePose, in hundredths: head_pan_joint, head_tilt_joint,
\* arm_lift_joint, arm_flex_joint, arm_roll_joint, wrist_flex_joint, wrist_roll_joint
JointStates ==
    [park |-> <<0, 0, 0, 0, -150, -150, 0>>,
     perceive |-> <<0, -65, 25, 0, 150, -150, 0>>,
     assistance |-> <<0, 0, 0, 0, -150, -150, 160>>,
     pre_align_height |-> <<0, 0, 0, 0, 0, -150, 0>>,
     carry |-> <<0, -65, 0, -43, 0, -117, -162>>,
     test |-> <<0, 0, 38, -144, 0, -19, 0>>]

\* the keywords a request can name: those of the poses, and others
PoseKeywords == DOMAIN JointStates \cup {"", "parking"}

\* TakePose.__init__: the pose and the JointPositionList for it; a keyword that names
\* no pose is logged and __init__ returns
TakePose(pose_keyword, start_condition, hold_condition, end_condition) ==
    IF pose_keyword \in DOMAIN JointStates
    THEN [goal_state |-> JointStates[pose_keyword],
          parts |-> <<Part("JointPositionList", start_condition, hold_condition,
                           end_condition)>>]
    ELSE [goal_state |-> <<>>, parts |-> <<>>]

\* __init__ of a TakePose of a motion request has returned
ConstructTakePose(pose_keyword, c) ==
    /\ goal.pc = "idle"
    /\ LET take == TakePose(pose_keyword, c.start_condition, c.hold_condition,
                            c.end_condition)
       IN  goal' = [GoalIdle EXCEPT !.pc = "constructed", !.class = "TakePose",
                                    !.start_condition = c.start_condition,
                                    !.hold_condition = c.hold_condition,
                                    !.end_condition = c.end_condition,
                                    !.pose_keyword = pose_keyword,
                                    !.parts = take.parts,
                                    !.goal_state = take.goal_state]
    /\ UNCHANGED <<protocol_vars, world_vars, last, collision_vars, except_goal>>

\* a goal of a motion request is constructed with the conditions c
Construct(class, from_above, special_door, goal_joint_state, c, parts, goal_state) ==
    /\ goal.pc = "idle"
    /\ goal' = [GoalIdle EXCEPT !.pc = "constructed", !.class = class,
                                !.start_condition = c.start_condition,
                                !.hold_condition = c.hold_condition,
                                !.end_condition = c.end_condition,
                                !.from_above = from_above,
                                !.special_door = special_door,
                                !.goal_joint_state = goal_joint_state,
                                !.parts = parts, !.goal_state = goal_state]
    /\ UNCHANGED <<protocol_vars, world_vars, last, collision_vars, except_goal>>

\* the constraints of the goal were collected; the next goal can be constructed
GoalCollected ==
    /\ goal.pc = "constructed"
    /\ goal' = GoalIdle
    /\ UNCHANGED <<protocol_vars, world_vars, last, collision_vars, except_goal>>

NextGoals ==
    \/ \E c \in Conditions :
          LET s == c.start_condition
              h == c.hold_condition
              e == c.end_condition
          IN  \/ Construct("GraspObject", FALSE, FALSE, <<>>, c,
                           GraspObject(s, h, e), <<>>)
              \/ \E from_above \in BOOLEAN :
                    Construct("AlignHeight", from_above, FALSE, <<>>, c,
                              AlignHeight(from_above, s, h, e), <<>>)
              \/ \E special_door \in BOOLEAN, g \in GoalJointStates :
                    LET open == Open(special_door, g, s, h, e)
                    IN  Construct("Open", FALSE, special_door, g, c,
                                  open.parts, open.goal_state)
              \/ \E g \in GoalJointStates :
                    LET close == Close(g, s, h, e)
                    IN  Construct("Close", FALSE, FALSE, g, c,
                                  close.parts, close.goal_state)
              \/ \E pose_keyword \in PoseKeywords : ConstructTakePose(pose_keyword, c)
    \/ GoalCollected

\* one goal after the other
SpecGoals == Init /\ [][NextGoals]_vars

\* ------------------------------------------------------------------ the motion of Open

\* Sleep(seconds=3)
SleepSeconds == 3

\* the monitors of the motion that are re-evaluated in every tick
Monitors == {"start", "end", "door_joint_monitor"}

\* a condition is true in a tick if one of its monitors is
Holds(condition, true_now) == condition \cap true_now # {}

\* the weight of the constraints of a part is forced to zero unless its start condition
\* has fired and its end condition has not
HasWeight(g, k) == k \in g.start_fired /\ k \notin g.end_fired

\* the motion with an Open goal begins
OpenMotion(special_door, goal_joint_state, c) ==
    /\ goal.pc = "idle"
    /\ LET open == Open(special_door, goal_joint_state, c.start_condition,
                        c.hold_condition, c.end_condition)
       IN  goal' = [GoalIdle EXCEPT !.pc = "running", !.class = "Open",
                                    !.start_condition = c.start_condition,
                                    !.hold_condition = c.hold_condition,
                                    !.end_condition = c.end_condition,
                                    !.special_door = special_door,
                                    !.goal_joint_state = goal_joint_state,
                                    !.parts = open.parts,
                                    !.goal_state = open.goal_state,
                                    !.sleep_start_condition = open.sleep_start_condition]
    /\ UNCHANGED <<protocol_vars, world_vars, last, collision_vars, except_goal>>

\* one tick of the control loop, a second after the last: the monitors are evaluated,
\* Sleep after the monitors of its start condition, then the weights are set
MotionTick(values) ==
    /\ goal.pc = "running"
    /\ LET evaluated == {"True"} \cup values
           sleep_clock == IF goal.sleep_clock >= 0
                          THEN (IF goal.sleep_clock < SleepSeconds
                                THEN goal.sleep_clock + 1 ELSE goal.sleep_clock)
                          ELSE IF Holds(goal.sleep_start_condition, evaluated)
                               THEN 0 ELSE -1
           true_now == evaluated
                       \cup (IF sleep_clock = SleepSeconds THEN {"sleep"} ELSE {})
           fired == [goal EXCEPT
                       !.true_now = true_now,
                       !.sleep_clock = sleep_clock,
                       !.start_fired = @ \cup
                           {k \in DOMAIN goal.parts :
                               Holds(goal.parts[k].start_condition, true_now)},
                       !.end_fired = @ \cup
                           {k \in DOMAIN goal.parts :
                               Holds(goal.parts[k].end_condition, true_now)}]
       IN  goal' = [fired EXCEPT
                       !.commanded = @ \cup {k \in DOMAIN goal.parts : HasWeight(fired, k)}]
    /\ UNCHANGED <<protocol_vars, world_vars, last, collision_vars, except_goal>>

\* the motion ends or is cancelled
MotionEnds ==
    /\ goal.pc = "running"
    /\ goal' = GoalIdle
    /\ UNCHANGED <<protocol_vars, world_vars, last, collision_vars, except_goal>>

NextOpen ==
    \/ \E special_door \in BOOLEAN, g \in GoalJointStates, c \in Conditions :
          OpenMotion(special_door, g, c)
    \/ \E values \in SUBSET Monitors : MotionTick(values)
    \/ MotionEnds

\* the ticks of motions with an Open goal
SpecOpen == Init /\ [][NextOpen]_vars

\* ------------------------------------------------------------------ trajectory

\* FollowJointTrajectoryResult: SUCCESSFUL, INVALID_GOAL, PATH_TOLERANCE_VIOLATED
ErrorCodes == {0, -1, -4}
\* error_code_to_str
ErrorCodeToStr(error_code) ==
    CASE error_code = 0 -> "SUCCESSFUL"
      [] error_code = -1 -> "INVALID_GOAL"
      [] error_code = -4 -> "PATH_TOLERANCE_VIOLATED"

\* the states of a goal at the action server in which it is finished
Terminal == {"SUCCEEDED", "ABORTED", "PREEMPTED"}

\* the trajectories planned: the positions of the controlled joint
Trajectories == {<<0, 1>>, <<0, 1, 2>>}

\* setup() connects the action client or times out; initialise() forgets the last goal
\* and makes the action goal of the trajectory in the god map
TrajSetup(connected, trajectory) ==
    /\ traj.pc = "idle"
    /\ traj' = [traj EXCEPT !.pc = "ticking", !.action_client = connected,
                            !.sent_goal = FALSE, !.action_goal = trajectory,
                            !.updates = 0, !.sends = 0]
    /\ UNCHANGED <<protocol_vars, world_vars, last, collision_vars, except_traj>>

\* update forgetting that it has sent the goal
UpdateForgetsSent(action_client, sent_goal, state, result) ==
    IF ~action_client
    THEN [status |-> "INVALID", sent_goal |-> sent_goal, send |-> FALSE,
          feedback_message |-> "no action client"]
    ELSE IF ~sent_goal
    THEN [status |-> "RUNNING", sent_goal |-> FALSE, send |-> TRUE,
          feedback_message |-> "sent goal to the action server"]
    ELSE [status |-> "RUNNING", sent_goal |-> sent_goal, send |-> FALSE,
          feedback_message |-> "moving"]

\* SendFollowJointTrajectory.update: the status returned, the feedback message,
\* whether it called send_goal, and sent_goal afterwards
Update(action_client, sent_goal, state, result) ==
    IF ~action_client
    THEN [status |-> "INVALID", sent_goal |-> sent_goal, send |-> FALSE,
          feedback_message |-> "no action client"]
    ELSE IF ~sent_goal
    THEN [status |-> "RUNNING", sent_goal |-> TRUE, send |-> TRUE,
          feedback_message |-> "sent goal to the action server"]
    ELSE IF state = "ABORTED"
    THEN IF result = <<>>
         THEN [status |-> "AttributeError", sent_goal |-> sent_goal, send |-> FALSE,
               feedback_message |-> ""]
         ELSE [status |-> "FAILURE", sent_goal |-> sent_goal, send |-> FALSE,
               feedback_message |-> ErrorCodeToStr(result[1])]
    ELSE IF result # <<>>
    THEN [status |-> "SUCCESS", sent_goal |-> sent_goal, send |-> FALSE,
          feedback_message |-> "goal reached"]
    ELSE [status |-> "RUNNING", sent_goal |-> sent_goal, send |-> FALSE,
          feedback_message |-> "moving"]

\* the tree ticks the behaviour as long as it is running
TrajUpdate ==
    /\ traj.pc = "ticking"
    /\ LET u == Update(traj.action_client, traj.sent_goal, traj.state, traj.result)
       IN  traj' = [traj EXCEPT
                      !.pc = IF u.status = "RUNNING" THEN "ticking" ELSE "returned",
                      !.status = u.status,
                      !.seen = traj.state,
                      !.feedback_message = u.feedback_message,
                      !.sent_goal = u.sent_goal,
                      !.server_goal = IF u.send THEN traj.action_goal ELSE @,
                      !.state = IF u.send THEN "PENDING" ELSE @,
                      !.updates = IF @ < 2 THEN @ + 1 ELSE @,
                      !.sends = IF u.send /\ @ < 2 THEN @ + 1 ELSE @]
    /\ UNCHANGED <<protocol_vars, world_vars, last, collision_vars, except_traj>>

\* the action server accepts the goal it was sent
ServerAccepts ==
    /\ traj.state = "PENDING"
    /\ traj' = [traj EXCEPT !.state = "ACTIVE"]
    /\ UNCHANGED <<protocol_vars, world_vars, last, collision_vars, except_traj>>

\* the action server finishes the goal: the client sees the new state of the goal
ServerFinishes(state) ==
    /\ traj.state = "ACTIVE"
    /\ traj' = [traj EXCEPT !.state = state]
    /\ UNCHANGED <<protocol_vars, world_vars, last, collision_vars, except_traj>>

\* the result message of the finished goal reaches the client
ResultArrives(error_code) ==
    /\ traj.state \in Terminal
    /\ traj.result = <<>>
    /\ traj' = [traj EXCEPT !.result = <<error_code>>]
    /\ UNCHANGED <<protocol_vars, world_vars, last, collision_vars, except_traj>>

\* the behaviour has returned a status other than RUNNING; the next trajectory
TrajDone ==
    /\ traj.pc = "returned"
    /\ traj' = TrajIdle
    /\ UNCHANGED <<protocol_vars, world_vars, last, collision_vars, except_traj>>

NextTraj ==
    \/ \E connected \in BOOLEAN, trajectory \in Trajectories :
          TrajSetup(connected, trajectory)
    \/ TrajUpdate
    \/ ServerAccepts
    \/ \E state \in Terminal : ServerFinishes(state)
    \/ \E error_code \in ErrorCodes : ResultArrives(error_code)
    \/ TrajDone

\* the behaviour and its action server
SpecTraj == Init /\ [][NextTraj]_vars

\* ------------------------------------------------------------------ force monitor

\* ForceTorqueThresholds: two names __call__ knows and one it does not
ThresholdNames == {"GraspCarefully", "Place", "Door"}

\* the x and y of the forces and torques of the sensor, in hundredths
Forces == {<<0, 0>>, <<0, 20>>, <<0, -21>>, <<1000, 0>>, <<-999, 0>>}
Torques == {<<0, 0>>, <<0, 2>>, <<0, -3>>, <<0, 400>>, <<0, -401>>}

\* god_map.world.transform_vector('map', ...): the sensor frame is turned against the
\* map by so many quarter turns about z
TransformVector(rotation, v) ==
    IF rotation = 0 THEN v ELSE <<-v[2], v[1]>>

\* abs
Abs(x) == IF x < 0 THEN -x ELSE x

\* the comparison of __call__ with the thresholds of the threshold_name
Surpasses(threshold_name, rob_force, rob_torque) ==
    CASE threshold_name = "GraspCarefully" ->
            Abs(rob_force[2]) > 20 \/ Abs(rob_torque[2]) > 2
      [] threshold_name = "Place" ->
            Abs(rob_force[1]) >= 1000 \/ Abs(rob_torque[2]) > 400

\* PayloadForceTorque.__init__
PayloadForceTorque(threshold_name) ==
    /\ ft.pc = "none"
    /\ ft' = [NoMonitor EXCEPT !.pc = "idle", !.threshold_name = threshold_name]
    /\ UNCHANGED <<protocol_vars, world_vars, last, collision_vars, except_ft>>

\* cb, in the thread of the subscriber: the message replaces self.wrench
Cb(force, torque) ==
    /\ ft.pc # "none"
    /\ ft.pc # "idle" => ft.wrench.seq < MaxCb
    /\ ft' = [ft EXCEPT !.wrench =
                 [force |-> force, torque |-> torque,
                  seq |-> IF ft.pc = "idle" THEN 0 ELSE ft.wrench.seq + 1]]
    /\ UNCHANGED <<protocol_vars, world_vars, last, collision_vars, except_ft>>

\* __call__: rob_force = self.force_T_map_transform(1), with the sensor as it is turned
\* in this tick
CallForce(rotation) ==
    /\ ft.pc = "idle"
    /\ ft' = [ft EXCEPT !.pc = "force", !.rotation = rotation,
                        !.force_from = ft.wrench, !.exc = NoException]
    /\ UNCHANGED <<protocol_vars, world_vars, last, collision_vars, except_ft>>

\* __call__: rob_torque = self.force_T_map_transform(2), and the comparison
CallTorque ==
    /\ ft.pc = "force"
    /\ LET rob_force == TransformVector(ft.rotation, ft.force_from.force)
           rob_torque == TransformVector(ft.rotation, ft.wrench.torque)
       IN  ft' = [ft EXCEPT
                    !.pc = "called",
                    !.torque_from = ft.wrench,
                    !.state = IF ft.threshold_name \in {"GraspCarefully", "Place"}
                              THEN Surpasses(ft.threshold_name, rob_force, rob_torque)
                              ELSE @,
                    !.exc = IF ft.threshold_name \in {"GraspCarefully", "Place"}
                            THEN NoException ELSE "AttributeError"]
    /\ UNCHANGED <<protocol_vars, world_vars, last, collision_vars, except_ft>>

\* __call__ has returned; the next tick calls it again
CallReturn ==
    /\ ft.pc = "called"
    /\ ft' = [ft EXCEPT !.pc = "idle", !.wrench.seq = 0,
                        !.force_from = NoWrench, !.torque_from = NoWrench,
                        !.rotation = 0]
    /\ UNCHANGED <<protocol_vars, world_vars, last, collision_vars, except_ft>>

NextForce ==
    \/ \E threshold_name \in ThresholdNames : PayloadForceTorque(threshold_name)
    \/ \E force \in Forces, torque \in Torques : Cb(force, torque)
    \/ \E rotation \in {0, 1} : CallForce(rotation)
    \/ CallTorque
    \/ CallReturn

\* the monitor, called tick after tick, and the thread of its subscriber
SpecForce == Init /\ [][NextForce]_vars

\* ------------------------------------------------------------------ properties

\* the threads that took the work permit and have not returned their response
PermitHolders == {t \in Clients : holds_permit[t] # "no"}

\* the threads that took the work permit and still hold service_in_use: those whose
\* operation is running or has run and whose finally block has not released the service
Mutating == {t \in Clients : holds_permit[t] # "no"
                             /\ pc[t] \in {"mutate", "fin_stall", "fin_release"}}

\* C1 as stated: at any time at most one invocation of update_world_cb is between
\* taking the work permit and returning its response
C1_OneHolderUntilReturn == Cardinality(PermitHolders) <= 1

\* C1 amended: at any time at most one invocation of update_world_cb is between taking
\* the work permit and releasing service_in_use in its finally block; an invocation
\* that has released it and is still in clear_markers may overlap the next holder
C1_OneMutationInFlight == Cardinality(Mutating) <= 1

\* C1 witness: one call runs its operation while another call waits for service_in_use
C1_Witness ==
    \E t, u \in Clients : t # u /\ pc[t] = "mutate" /\ pc[u] = "put_in_use"

\* the tick thread is in a tick in which update() returns or has returned SUCCESS
SuccessTick ==
    \/ tick_ret = SUCCESS
    \/ tick_pc = "idle" /\ last_status = SUCCESS

\* C2: while a call runs its operation under the work permit, the permit it took was
\* put by update() for this call and the tick thread is not in a tick in which
\* update() returns SUCCESS: a mutation is never interleaved with such a tick
C2_MutationOnlyInRunningTick ==
    \A t \in Clients :
        pc[t] = "mutate" => holds_permit[t] = "fresh" /\ ~SuccessTick

\* C3: a request that arrived while another call held service_in_use is rejected
\* with BUSY: its operation never runs and the response it returns is BUSY
C3_ArrivedBusyIsRejected ==
    \A t \in Clients :
        arrived_while_in_use[t] =>
            /\ pc[t] # "mutate"
            /\ pc[t] \in {"fin_stall", "fin_release", "fin_markers"} => resp[t] = RES_BUSY

\* the last call was processed: it got the permit and its operation ran
Processed == last.code \notin {"none", RES_BUSY}

\* C4: whenever update_world_cb returns a response whose code is not SUCCESS, the
\* world, the plugins of the tree, added_plugin_names and the self-collision matrix
\* are what they were before the request
C4_FailureLeavesWorldUnchanged ==
    last.code \notin {"none", RES_SUCCESS} => CurrentBundle = last.pre

\* an ADD whose group name was in the world when it was processed
DuplicateAdd ==
    /\ Processed
    /\ last.req.operation = ADD
    /\ last.req.group_name \in last.pre.world.groups

ParentAndFrameResolve ==
    /\ SearchForLinkName(last.pre.world, last.req.parent_link,
                         last.req.parent_link_group).exc = NoException
    /\ last.req.frame_id = "map"

UnknownGroupRequest ==
    /\ Processed
    /\ last.req.group_name \notin last.pre.world.groups
    /\ \/ last.req.operation \in {REMOVE, UPDATE_POSE}
       \/ /\ last.req.operation = UPDATE_PARENT_LINK
          /\ SearchForLinkName(last.pre.world, last.req.parent_link,
                               last.req.parent_link_group).exc = NoException

\* C6: REMOVE, UPDATE_POSE and, with a known parent link, UPDATE_PARENT_LINK naming a
\* group that is not in the world return UNKNOWN_GROUP_ERROR and leave groups, links,
\* joint state, the collision matrix and added_plugin_names unchanged
C6_UnknownGroupRejected ==
    UnknownGroupRequest =>
        last.code = "UNKNOWN_GROUP_ERROR" /\ CurrentBundle = last.pre

\* C6 witness: such a request was answered while another group was in the world
C6_Witness ==
    /\ UnknownGroupRequest
    /\ last.req.operation = UPDATE_PARENT_LINK
    /\ last.pre.world.groups # {RobotName}


\* the keys (robot_link, body_b, link_b) of concrete links a request can name
ConcreteKeys ==
    {<<r, RobotName, l>> : r \in RobotLinks, l \in RobotLinks}
    \cup {<<r, "box", "box">> : r \in RobotLinks}

\* a list of names that covers a link: it holds the link, or stands for every link
Covers(names, link) == link \in Range(names) \/ names = <<>> \/ names = <<ALL>>

\* the entry speaks of the key as it is written
Matches(ce, key) ==
    /\ Covers(ce.robot_links, key[1])
    /\ ce.body_b \in {key[2], ALL}
    /\ Covers(ce.link_bs, key[3])

\* the entry speaks of the pair of the key, in one orientation or the other
MatchesEither(ce, key) == Matches(ce, key) \/ Matches(ce, <<key[3], key[2], key[1]>>)

\* the entry is an AVOID_COLLISION entry written for exactly this key
AvoidsKey(ce, key) ==
    /\ ce.type = AVOID_COLLISION
    /\ ce.robot_links = <<key[1]>>
    /\ ce.body_b = key[2]
    /\ ce.link_bs = <<key[3]>>

\* a matrix was returned for a list in which entry j avoids the key after an ALLOW
\* entry matching it, and no later entry speaks of the pair
AvoidAfterAllow(key, j) ==
    /\ matrix_result.exc = NoException
    /\ j \in DOMAIN collision_goals
    /\ AvoidsKey(collision_goals[j], key)
    /\ \E i \in 1..(j - 1) :
          /\ IsAllowCollision(collision_goals[i])
          /\ MatchesEither(collision_goals[i], key)
    /\ \A k \in (j + 1)..Len(collision_goals) : ~MatchesEither(collision_goals[k], key)

C8_NoKeyInBothOrientations ==
    matrix_result.exc = NoException =>
        \A key \in DOMAIN matrix_result.matrix :
            <<key[3], key[2], key[1]>> \in DOMAIN matrix_result.matrix
                => key[1] = key[3]

\* the entries of the list that speak of the robot's pair {a, b}
NamingPair(a, b) ==
    {i \in DOMAIN collision_goals :
        MatchesEither(collision_goals[i], <<a, RobotName, b>>)}

\* C9: when the last entry that speaks of a self-collision pair {A, B} of the robot is
\* ALLOW_COLLISION, the returned matrix has neither (A, robot, B) nor (B, robot, A)
C9_AllowedPairIsInNoOrientation ==
    \A a \in RobotLinks : \A b \in RobotLinks \ {a} :
        (/\ matrix_result.exc = NoException
         /\ NamingPair(a, b) # {}
         /\ \E i \in NamingPair(a, b) :
               /\ \A k \in NamingPair(a, b) : k <= i
               /\ IsAllowCollision(collision_goals[i]))
        => /\ <<a, RobotName, b>> \notin DOMAIN matrix_result.matrix
           /\ <<b, RobotName, a>> \notin DOMAIN matrix_result.matrix

\* the entry names a body that is no group, a robot link the robot does not have, or
\* a link b the named body does not have
NamesUnknown(groups, ce) ==
    \/ ce.body_b \notin Range(groups) /\ ce.body_b # ALL
    \/ \E rl \in Range(ce.robot_links) : rl # ALL /\ rl \notin RobotLinkNames
    \/ /\ ce.body_b \in Range(groups)
       /\ \E lb \in Range(ce.link_bs) : lb # ALL /\ lb \notin LinkNamesOf(ce.body_b)

\* collision_goals_to_collision_matrix was called with a list naming something unknown
CalledWithUnknown ==
    /\ matrix_result # NoResult
    /\ \E i \in DOMAIN collision_goals : NamesUnknown(scene_groups, collision_goals[i])

\* C10 as stated: a list with an entry naming an unknown body, robot link or link b
\* makes collision_goals_to_collision_matrix raise UnknownBodyException
C10_UnknownRaisesUnknownBody ==
    CalledWithUnknown =>
        /\ matrix_result.exc = "UnknownBodyException"
        /\ DOMAIN matrix_result.matrix = {}

\* C10: a list with an entry naming an unknown body, robot link or link b returns no
\* matrix: UnknownBodyException is raised, or PhysicsWorldException when some entry
\* of the list uses ALL next to other names
C10_UnknownIsRejected ==
    CalledWithUnknown =>
        /\ DOMAIN matrix_result.matrix = {}
        /\ IF AllUsedProperly(NormaliseTypes(collision_goals))
           THEN matrix_result.exc = "UnknownBodyException"
           ELSE matrix_result.exc = "PhysicsWorldException"

\* a list whose only fault is a robot link the robot does not have
C10_Witness ==
    /\ CalledWithUnknown
    /\ collision_goals = <<Entry(AVOID_COLLISION, <<"zz">>, RobotName, <<ALL>>)>>
    /\ matrix_result.exc = "UnknownBodyException"


\* what verify_collision_entries gave for the list of the last call
Verified == VerifyCollisionEntries(scene_groups, collision_matrices, collision_goals)

\* the entries of the verified list that are not avoid-all-self-collision entries
SplitEntries ==
    LET goals == Verified.goals
    IN  {goals[i] : i \in {j \in DOMAIN goals : ~IsAvoidAllSelfCollision(goals[j])}}

\* the list of the last call passed validation: a result without one of the two
\* exceptions of the validation
PassedValidation ==
    /\ matrix_result # NoResult
    /\ matrix_result.exc \notin {"PhysicsWorldException", "UnknownBodyException"}

\* the entry names exactly one robot link and one body, neither of them ALL, and has
\* exactly one link b
OneLinkOneBody(ce) ==
    /\ Len(ce.robot_links) = 1
    /\ ce.robot_links[1] # ALL
    /\ ce.body_b # ALL
    /\ Len(ce.link_bs) = 1

\* C11 as stated: after verify_collision_entries every entry that is not an
\* avoid-all-self-collision entry names exactly one concrete robot link, one concrete
\* body and exactly one concrete link b; no ALL remains
C11_NoWildcardRemains ==
    PassedValidation =>
        \A ce \in SplitEntries : OneLinkOneBody(ce) /\ ce.link_bs[1] # ALL

\* C11: after verify_collision_entries every entry that is not an
\* avoid-all-self-collision entry names exactly one concrete robot link, one concrete
\* body and exactly one link b, which is concrete when the body is the robot and may
\* be ALL for another body; the two length assertions never fail
C11_OneLinkPerEntry ==
    PassedValidation =>
        /\ \A ce \in SplitEntries :
              /\ OneLinkOneBody(ce)
              /\ ce.body_b = RobotName => ce.link_bs[1] # ALL
        /\ matrix_result.exc = NoException

\* a list with several robot links and no link b passed validation and was split
C11_Witness ==
    /\ PassedValidation
    /\ collision_goals = <<Entry(ALLOW_COLLISION, <<"base", "hand">>, "box", <<>>)>>
    /\ Cardinality(SplitEntries) > 1


\* C12: calc_collision_matrix stores and returns exactly the candidate pairs that are
\* not one link twice and not linked, are not within d at the zero joint state, and
\* are within d2 in the minimum, the maximum or one of the random joint states
C12_MatrixIsSometimesNotAlways ==
    calc.pc = "done" =>
        collision_matrices =
            {p \in calc.link_combinations :
                /\ p[1] # p[2]
                /\ p \notin calc.linked
                /\ p \notin calc.close_at_zero
                /\ p \in calc.close_in_sample}

\* a matrix with a pair in it was stored while another candidate pair was left out
C12_Witness ==
    /\ calc.pc = "done"
    /\ collision_matrices # {}
    /\ calc.link_combinations \ (collision_matrices \cup calc.always) # {}
    /\ calc.always \ calc.linked # {}


\* InitQPController.update has run for a motion in whose constraint expressions no
\* free variable of the world occurs
EmptyProblem ==
    /\ qp.pc \in {"loop", "done"}
    /\ \A c \in qp.motion.constraints :
          c.kind = "manip" \/ c.symbols \cap world.free_variables = {}

\* C13: if no free variable of the world occurs in the constraint expressions of the
\* goals, InitQPController.update builds no QPProblemBuilder, god_map.qp_controller and
\* god_map.free_variables keep their values, and the motion ends with EMPTY_PROBLEM
\* with the joint state unchanged
C13_EmptyProblemFailsFast ==
    EmptyProblem =>
        /\ qp.pc = "done"
        /\ qp.result = "EMPTY_PROBLEM"
        /\ qp.built = 0
        /\ qp.qp_controller = qp.pre_qp_controller
        /\ qp.free_variables = qp.pre_free_variables
        /\ world.state = qp.pre_state

\* an empty problem after a motion that built a controller and moved the arm
C13_Witness ==
    /\ EmptyProblem
    /\ qp.pre_qp_controller # NoController
    /\ qp.pre_free_variables # <<>>
    /\ world.state # InitialWorld.state

\* C19: a motion without SetPredictionHorizon builds its QP with the configured
\* prediction horizon, whatever SetPredictionHorizon goals earlier motions had
C19_HorizonIsRestored ==
    (qp.pc = "loop" /\ qp.motion.new_prediction_horizon = NoHorizon)
        => qp.qp_controller.prediction_horizon = ConfiguredHorizon

\* the goal constructed last was given none of the default conditions
NonDefaultConditions ==
    /\ goal.pc = "constructed"
    /\ goal.start_condition # TrueSymbol
    /\ goal.hold_condition # FalseSymbol
    /\ goal.end_condition \notin {TrueSymbol, FalseSymbol}

\* C14: no sub-goal or task of a goal of goals/suturo.py or goals/open_close.py that
\* was constructed with non-default start, hold and end conditions runs with the
\* default conditions
C14_NoPartRunsWithDefaults ==
    NonDefaultConditions =>
        \A k \in DOMAIN goal.parts : goal.parts[k] # DefaultPart(goal.parts[k].name)

\* C20: the joint goal that Open and Close hand to JointPositionList lies within the
\* position limits of the joint; an omitted goal_joint_state gives max_position for
\* Open and min_position for Close
C20_GoalStateWithinLimits ==
    (goal.pc = "constructed" /\ goal.class \in {"Open", "Close"}) =>
        /\ JointPositionLimits[1] <= goal.goal_state[1]
        /\ goal.goal_state[1] <= JointPositionLimits[2]
        /\ goal.goal_joint_state = <<>> =>
              goal.goal_state[1] = IF goal.class = "Open"
                                   THEN JointPositionLimits[2]
                                   ELSE JointPositionLimits[1]

\* C18: update returns SUCCESS only if the action server has succeeded, FAILURE if
\* the server has preempted or aborted the goal, and RUNNING while the goal is
\* pending or being executed
C18_StatusFollowsServer ==
    (traj.action_client /\ traj.status # "none") =>
        /\ traj.status = "SUCCESS" => traj.seen = "SUCCEEDED"
        /\ traj.seen \in {"PREEMPTED", "ABORTED"} => traj.status = "FAILURE"
        /\ traj.seen \in {"PENDING", "ACTIVE"} => traj.status = "RUNNING"

\* the seven result codes, by their names in UpdateWorldResponse
SevenCodes ==
    {RES_SUCCESS, "UNKNOWN_GROUP_ERROR", "UNKNOWN_LINK_ERROR", "DUPLICATE_GROUP_ERROR",
     "CORRUPT_SHAPE_ERROR", RES_BUSY, "ERROR"}

\* the codes update_world_cb and exception_to_response name
NamedCodes ==
    SevenCodes \cup {"CORRUPT_MESH_ERROR", "CORRUPT_URDF_ERROR", "UNSUPPORTED_OPTIONS",
                     "TF_ERROR", "INVALID_OPERATION"}

\* C15 (as stated): every response of update_world_cb carries one of the seven codes
\* SUCCESS, UNKNOWN_GROUP, UNKNOWN_LINK, DUPLICATE_NAME, CORRUPT_SHAPE, BUSY, ERROR
C15_OneOfSevenCodes == last.code # "none" => last.code \in SevenCodes

\* C15 (amended): every response of update_world_cb carries one of the seven codes or
\* one of CORRUPT_MESH_ERROR, CORRUPT_URDF_ERROR, UNSUPPORTED_OPTIONS, TF_ERROR and
\* INVALID_OPERATION; a request with an unknown operation code that got the work
\* permit is answered INVALID_OPERATION
C15_OneOfNamedCodes ==
    last.code # "none" =>
        /\ last.code \in NamedCodes
        /\ (Processed /\ last.req.operation = OTHER_OPERATION) =>
              last.code = "INVALID_OPERATION"

\* a request with an unknown operation code was answered under the work permit
C15_Witness == Processed /\ last.req.operation = OTHER_OPERATION

\* a REMOVE request was answered SUCCESS
Removed == last.code = RES_SUCCESS /\ last.req.operation = REMOVE

\* the plugins added_plugin_names lists for a group
PluginsOf(apn, g) == IF g \in DOMAIN apn THEN {apn[g][i] : i \in DOMAIN apn[g]} ELSE {}

\* C16: after a REMOVE request returned SUCCESS the group is not among the groups of
\* the world, none of its former links and joints is in the world, the plugins that
\* were inserted for it are not in the tree, it has no entry in added_plugin_names,
\* and what is outside its sub-tree (groups, links, joints, poses, joint state,
\* plugins) is as it was
C16_RemoveLeavesNoTrace ==
    Removed =>
        LET name == last.req.group_name
            pre == last.pre
            gone == LinksOfGroup(pre.world, name)
            gone_groups == {g \in pre.world.groups : RootLinkOf(g) \in gone}
            plugins == PluginsOf(pre.added_plugin_names, name)
        IN  /\ name \notin world.groups
            /\ world.links \cap gone = {}
            /\ DOMAIN world.parent \cap gone = {}
            /\ tree_plugins \cap plugins = {}
            /\ name \notin DOMAIN added_plugin_names
            /\ world.groups = pre.world.groups \ gone_groups
            /\ world.links = pre.world.links \ gone
            /\ \A l \in DOMAIN world.parent : world.parent[l] = pre.world.parent[l]
            /\ \A g \in DOMAIN world.pose : world.pose[g] = pre.world.pose[g]
            /\ DOMAIN world.pose = DOMAIN pre.world.pose \ gone_groups
            /\ world.free_variables = pre.world.free_variables \ gone
            /\ \A v \in world.free_variables : world.state[v] = pre.world.state[v]
            /\ tree_plugins = pre.tree_plugins \ plugins
            /\ \A g \in DOMAIN pre.added_plugin_names \ {name} :
                  /\ g \in DOMAIN added_plugin_names
                  /\ added_plugin_names[g] = pre.added_plugin_names[g]

\* a group with a plugin in the tree and another group attached to it was removed
C16_Witness ==
    /\ Removed
    /\ PluginsOf(last.pre.added_plugin_names, last.req.group_name) # {}
    /\ Cardinality(LinksOfGroup(last.pre.world, last.req.group_name)) > 1

\* a REMOVE_ALL request was answered SUCCESS
Cleared == last.code = RES_SUCCESS /\ last.req.operation = REMOVE_ALL

\* C17: after a REMOVE_ALL request returned SUCCESS only the robot group is in the
\* world, the world has as many links as at start-up, added_plugin_names is empty
\* and no added plugin is in the tree, and the joint state has the values it had
\* before for exactly the free variables that are still there
C17_ClearLeavesRobotOnly ==
    Cleared =>
        /\ world.groups = {RobotName}
        /\ Cardinality(world.links) = Cardinality(InitialWorld.links)
        /\ DOMAIN added_plugin_names = {}
        /\ tree_plugins = {}
        /\ DOMAIN world.state = world.free_variables
        /\ \A v \in world.free_variables :
              /\ v \in last.pre.world.free_variables
              /\ world.state[v] = last.pre.world.state[v]

\* a world with an object with a joint and a plugin, and a moved robot, was cleared
C17_Witness ==
    /\ Cleared
    /\ last.pre.tree_plugins # {}
    /\ last.pre.world.free_variables # world.free_variables
    /\ \E v \in world.free_variables : world.state[v] # InitialWorld.state[v]

\* a step of update() or of a call that has entered update_world_cb
Progress ==
    \/ Tick
    \/ \E t \in Clients :
          \/ PutInUse(t)
          \/ GetTicked(t)
          \/ GetPermit(t)
          \/ PermitTimeout(t)
          \/ \E r \in ProtocolRequests : Mutate(t, r)
          \/ FinallyStall(t)
          \/ FinallyRelease(t)
          \/ ClearMarkersAndReturn(t)

\* C23: while a call of update_world_cb has not returned, update() or a service
\* thread can take a step: the threads never deadlock on service_in_use,
\* update_ticked and work_permit, so that a call can always still return
C23_NoDeadlock == (\E t \in Clients : pc[t] # "idle") => ENABLED Progress

\* C24: work_permit holds a permit only while a call is in use and has not taken
\* it, so that the queue is empty once update_world_cb has returned; update() never
\* waits in work_permit.put on a full queue, and no call takes a permit that was
\* put for an earlier call
C24_PermitOnlyForWaitingCall ==
    /\ work_permit = 1 => \E t \in Clients : pc[t] \in {"ticked1", "ticked2", "get_permit"}
    /\ ~(tick_pc = "put_permit" /\ work_permit = 1)
    /\ \A t \in Clients : holds_permit[t] # "stale"

\* an UPDATE_PARENT_LINK request was processed for a group whose root link already
\* hangs below the parent link the request names
AlreadyAttached ==
    /\ Processed
    /\ last.req.operation = UPDATE_PARENT_LINK
    /\ last.req.group_name \in last.pre.world.groups
    /\ LET found == SearchForLinkName(last.pre.world, last.req.parent_link,
                                      last.req.parent_link_group)
       IN  /\ found.exc = NoException
           /\ found.link = last.pre.world.parent[RootLinkOf(last.req.group_name)]

\* C25: UPDATE_PARENT_LINK for a group that is already attached to the requested
\* parent link returns SUCCESS and leaves the world and the self-collision matrix
\* as they were
C25_AlreadyAttachedChangesNothing ==
    AlreadyAttached =>
        /\ last.code = RES_SUCCESS
        /\ world = last.pre.world
        /\ self_collision_links = last.pre.self_collision_links

\* the request list of the last call as verify_collision_entries looks at it, and
\* the positions of its avoid-all and allow-all entries
Looked == FillEmpty(NormaliseTypes(collision_goals))
AllPositions ==
    {i \in DOMAIN Looked : IsAvoidAllCollision(Looked[i]) \/ IsAllowAllCollision(Looked[i])}

\* the matrix collision_goals_to_collision_matrix gives for a list in this scene
MatrixOf(goals) ==
    CollisionGoalsToCollisionMatrix(scene_groups, collision_matrices, goals)

\* C26: the entries in front of the last avoid-all or allow-all entry of a valid
\* request list have no effect on the collision matrix; a list with neither gives
\* the matrix of the list with an avoid-all entry in front; a list that ends with an
\* avoid-all entry gives the matrix of the empty list, where every collision is
\* avoided, and a list that ends with an allow-all entry gives the empty matrix
C26_LastAllEntryDecides ==
    (matrix_result # NoResult
     /\ matrix_result.exc \notin {"PhysicsWorldException", "UnknownBodyException"}) =>
        LET n == Len(collision_goals)
        IN  /\ AllPositions = {} =>
                  matrix_result =
                      MatrixOf(<<Entry(AVOID_COLLISION, <<ALL>>, ALL, <<ALL>>)>>
                               \o collision_goals)
            /\ AllPositions # {} =>
                  LET j == CHOOSE i \in AllPositions : \A k \in AllPositions : k <= i
                  IN  matrix_result = MatrixOf(SubSeq(collision_goals, j, n))
            /\ (n > 0 /\ IsAvoidAllCollision(Looked[n])) =>
                  /\ matrix_result = MatrixOf(<<>>)
                  /\ DOMAIN matrix_result.matrix # {}
            /\ (n > 0 /\ IsAllowAllCollision(Looked[n])) =>
                  /\ matrix_result.exc = NoException
                  /\ DOMAIN matrix_result.matrix = {}

\* a valid list with an entry in front of its last entry, which is allow-all
C26_Witness ==
    /\ matrix_result # NoResult
    /\ matrix_result.exc = NoException
    /\ Len(collision_goals) > 1
    /\ IsAllowAllCollision(Looked[Len(collision_goals)])
    /\ ~IsAllowAllCollision(Looked[1])

\* C29: the free variables InitQPController hands to QPProblemBuilder are exactly
\* the free variables of the world whose position symbol occurs in an equality,
\* inequality or derivative constraint, each once and in the order of their position
\* names; a symbol that occurs in manipulability constraints only activates nothing
C29_ActiveFreeVariables ==
    qp.pc = "loop" =>
        LET fv == qp.qp_controller.free_variables
        IN  /\ {fv[i] : i \in DOMAIN fv} =
                  {v \in world.free_variables :
                      \E c \in qp.motion.constraints :
                          c.kind \in {"eq", "neq", "derivative"} /\ v \in c.symbols}
            /\ \A i, j \in DOMAIN fv : i < j => NameRank[fv[i]] < NameRank[fv[j]]

\* a controller for the arm alone, while the joint of the box is a free variable of
\* the world and occurs in a manipulability constraint
C29_Witness ==
    /\ qp.pc = "loop"
    /\ qp.qp_controller.free_variables = <<"arm">>
    /\ "box" \in world.free_variables
    /\ \E c \in qp.motion.constraints : c.kind = "manip" /\ "box" \in c.symbols

\* no update returns SUCCESS or FAILURE before the goal has been sent, and no update
\* sends the goal a second time
NeverEarlyNeverTwice ==
    /\ traj.status \in {"SUCCESS", "FAILURE"} => traj.sends >= 1
    /\ traj.sends <= 1

\* C30 as stated: between one initialise() and the next, update sends the goal exactly
\* once, on the first update, which returns RUNNING; no later update sends it again,
\* and no update returns SUCCESS or FAILURE before the goal has been sent
C30_SentOnceOnFirstUpdate ==
    /\ NeverEarlyNeverTwice
    /\ traj.updates >= 1 => traj.sends = 1
    /\ traj.updates = 1 => traj.status = "RUNNING"

\* C30, amended: with an action client, update sends the goal exactly once, on the
\* first update, which returns RUNNING; without one no update sends anything and the
\* first update returns INVALID; no update returns SUCCESS or FAILURE before the goal
\* has been sent, and no later update sends it again
C30_SentOnceIfConnected ==
    /\ NeverEarlyNeverTwice
    /\ traj.updates >= 1 =>
          IF traj.action_client
          THEN traj.sends = 1 /\ (traj.updates = 1 => traj.status = "RUNNING")
          ELSE traj.sends = 0 /\ traj.status = "INVALID"

\* a later update has returned SUCCESS or FAILURE for the goal the first one sent
C30_Witness ==
    /\ traj.action_client
    /\ traj.updates = 2
    /\ traj.sends = 1
    /\ traj.status \in {"SUCCESS", "FAILURE"}

\* C22: a TakePose with a pose_keyword other than park, perceive, assistance,
\* pre_align_height, carry or test fails at construction time; it never is a
\* constructed goal, added without constraints
C22_UnknownPoseIsNotConstructed ==
    ~(/\ goal.pc = "constructed"
      /\ goal.class = "TakePose"
      /\ goal.pose_keyword \notin {"park", "perceive", "assistance",
                                   "pre_align_height", "carry", "test"})

\* what __call__ would say of one message: whether its force and torque, transformed
\* to the map frame, surpass the thresholds of the threshold_name
SurpassedBy(w) ==
    Surpasses(ft.threshold_name, TransformVector(ft.rotation, w.force),
              TransformVector(ft.rotation, w.torque))

\* C21: PayloadForceTorque does not latch: after every __call__ its state is True
\* exactly if the latest wrench, transformed to the map frame, surpasses the
\* thresholds of its threshold_name, whatever the state was before; the latest wrench
\* is the one self.wrench held when __call__ began or one that arrived while it ran
C21_StateOfLatestWrench ==
    (ft.pc = "called" /\ ft.threshold_name \in {"GraspCarefully", "Place"}) =>
        \/ ft.state = SurpassedBy(ft.force_from)
        \/ ft.state = SurpassedBy(ft.torque_from)

\* C28: the force and the torque that one __call__ compares with the thresholds come
\* from the same WrenchStamped message
C28_ForceAndTorqueOfOneMessage ==
    ft.pc = "called" => ft.force_from = ft.torque_from

\* the end condition of the opening phase: end_condition or the door joint monitor
OpeningEnd == goal.end_condition \cup {"door_joint_monitor"}

\* C27: in Open with special_door and goal_joint_state > 1 the two tasks and the goal
\* of the container joint end on (end_condition or the door joint monitor), the retract
\* pose starts on that condition and ends with the Sleep monitor that this condition
\* started; in no tick do opening and retract constraints both have weight, and the
\* retract pose has no weight before the opening phase has ended
C27_OpeningThenRetract ==
    (goal.pc = "running" /\ goal.special_door /\ goal.goal_state[1] > 1) =>
        /\ Len(goal.parts) = 4
        /\ \A k \in 1..3 : goal.parts[k].end_condition = OpeningEnd
        /\ goal.parts[4].start_condition = OpeningEnd
        /\ goal.parts[4].end_condition = {"sleep"}
        /\ goal.sleep_start_condition = OpeningEnd
        /\ ~(HasWeight(goal, 4) /\ \E k \in 1..3 : HasWeight(goal, k))
        /\ 4 \in goal.commanded => \A k \in 1..3 : k \in goal.end_fired
        /\ 4 \in goal.end_fired <=> goal.sleep_clock = SleepSeconds

\* the retract pose has weight after the opening tasks had theirs, and the Sleep monitor
\* is running
C27_Witness ==
    /\ goal.pc = "running" /\ goal.special_door /\ goal.goal_state[1] > 1
    /\ {1, 2, 3} \subseteq goal.commanded
    /\ HasWeight(goal, 4)
    /\ goal.sleep_clock = 2

====
